---- MODULE Spec2Model ----
(***************************************************************************)
(* Verification model of parts of edx-platform:                            *)
(*   - xmodule/capa/xqueue_interface.py  (XQueueInterface, parse_xreply)   *)
(*   - lms/djangoapps/instructor/views/api_v2.py (GenerateReportView,      *)
(*     ReportDownloadsView)                                                *)
(*   - openedx/core/djangoapps/course_groups/rest_api/views.py             *)
(*   - openedx/core/djangoapps/content/search/documents.py                 *)
(*   - openedx-wasm/untrusted_code/wasm_helper.py (json_safe)              *)
(* Each part has its own variables and its own specification: SpecXQueue   *)
(* drives one XQueueInterface object through send_to_queue calls,          *)
(* SpecReport drives GenerateReportView through POST requests,             *)
(* SpecDownloads ReportDownloadsView through GET requests, SpecGroups the   *)
(* group configuration views, SpecSearchDocs the functions that build      *)
(* search documents, SpecJsonSafe calls of json_safe.                      *)
(***************************************************************************)
EXTENDS Integers, Sequences, FiniteSets, TLC

VARIABLES
    \* ---- XQueueInterface object (xqueue_interface.py:93-99) ----
    url,                    \* self.url
    block,                  \* self.block: "None" or a ProblemBlock id
    use_submission_service, \* self.use_submission_service
    \* ---- one send_to_queue call in progress ----
    xq_pc,                  \* position inside send_to_queue
    header, body,           \* arguments of the call
    files_to_upload,        \* argument: FilesNone or a sequence of file objects
    error, msg,             \* the locals (error, msg) / (error, content)
    xq_result,              \* what the call gave back: Return(..) / Raise(..)
    calls,                  \* external calls made by this call, in order
    filepos,                \* read position of every file object
    http_outcome,           \* what session.post did in the latest _http_post
    http_result,            \* what that _http_post gave back
    \* ---- GenerateReportView, one request in progress ----
    rp_pc,                  \* position inside the request cycle
    report_type,            \* URL kwarg report_type
    request_data,           \* request.data
    course_id,              \* URL kwarg course_id
    authenticated,          \* the request carries an authenticated user
    user_perms,             \* permissions the user holds on the course
    site_config,            \* site configuration and course settings read by the handlers
    store,                  \* usage keys of the items that exist in the modulestore
    perm_checked,           \* permission name InstructorPermission asked for
    handler_calls,          \* report handlers invoked by post, in order
    handler_out,            \* what the invoked handler returned or raised
    task_calls,             \* task_api / report store submissions, in order
    response,               \* the HTTP response of the request
    \* ---- ReportDownloadsView, one request in progress ----
    dl_pc,                  \* position inside the request cycle
    dl_course_id,           \* URL kwarg course_id
    dl_links,               \* the files of the course in the report store, as they were named
    dl_response,            \* the HTTP response of the request
    strftime_pads_year,     \* the platform's strftime('%Y') zero-pads years below 1000
    \* ---- group configuration views, one request in progress ----
    gc_pc,                  \* position inside the request cycle
    gc_view,                \* the view the URL names: list or detail
    gc_course_id,           \* URL kwarg course_id
    gc_configuration_id,    \* URL kwarg configuration_id
    gc_user_partitions,     \* course.user_partitions of the course
    gc_mfe_config,          \* MFE_CONFIG of the site
    gc_response,            \* the HTTP response of the request
    \* ---- search documents (documents.py), one call in progress ----
    sd_pc,                  \* position inside the call
    sd_function,            \* the function called
    sd_key,                 \* its key argument
    sd_collection_arg,      \* the collection= argument of searchable_doc_for_collection
    sd_object_tags,         \* the tags of the object, as get_object_tags(...).all() lists them
    sd_db_collection,       \* the collection the library holds, if any
    sd_db_container,        \* the container the library holds, if any
    sd_db_block,            \* the block the course or the library holds, if any
    sd_search_access,       \* the SearchAccess table: context keys in the order of their ids
    sd_result,              \* what the call gave back
    \* ---- json_safe (wasm_helper.py), one call in progress ----
    js_pc,                  \* position inside the call
    js_d,                   \* the argument d
    js_result               \* what the call gave back

xq_vars == <<url, block, use_submission_service, xq_pc, header, body,
             files_to_upload, error, msg, xq_result, calls, filepos,
             http_outcome, http_result>>
rp_vars == <<rp_pc, report_type, request_data, course_id, authenticated, user_perms,
             site_config, store, perm_checked, handler_calls, handler_out, task_calls,
             response>>
dl_vars == <<dl_pc, dl_course_id, dl_links, dl_response, strftime_pads_year>>
gc_vars == <<gc_pc, gc_view, gc_course_id, gc_configuration_id, gc_user_partitions,
             gc_mfe_config, gc_response>>
sd_vars == <<sd_pc, sd_function, sd_key, sd_collection_arg, sd_object_tags, sd_db_collection,
             sd_db_container, sd_db_block, sd_search_access, sd_result>>
js_vars == <<js_pc, js_d, js_result>>
vars == <<xq_vars, rp_vars, dl_vars, gc_vars, sd_vars, js_vars>>
\* what the actions of one view or object leave alone
xq_others == <<rp_vars, dl_vars, gc_vars, sd_vars, js_vars>>
rp_others == <<xq_vars, dl_vars, gc_vars, sd_vars, js_vars>>
dl_others == <<xq_vars, rp_vars, gc_vars, sd_vars, js_vars>>
gc_others == <<xq_vars, rp_vars, dl_vars, sd_vars, js_vars>>
sd_others == <<xq_vars, rp_vars, dl_vars, gc_vars, js_vars>>
js_others == <<xq_vars, rp_vars, dl_vars, gc_vars, sd_vars>>

(***************************************************************************)
(* Bounds of the model                                                     *)
(***************************************************************************)
NumFiles == 2       \* file objects a caller can choose from
MaxUpload == 2      \* longest files_to_upload list
MaxReturnCode == 2  \* xqueue replies carry return_code in 0..MaxReturnCode or null
MaxLocLen == 3      \* longest problem_location text of a request
MaxAttrs == 2       \* longest additional_student_profile_attributes list
MaxPartitions == 2  \* longest course.user_partitions list
MaxTags == 2        \* most tags on one object
MaxEntries == 2     \* most entries of a dict handed to json_safe

(***************************************************************************)
(* Python values                                                           *)
(***************************************************************************)
PyNone == <<"None">>
PyInt(n) == <<"int", n>>
PyStr(t) == <<"str", t>>
\* a str held as the sequence of its characters
PyText(chars) == <<"str", chars>>
PyList(q) == <<"list", q>>

\* truth value of a value in `if v`: None, 0, '' and [] are false
Truthy(v) ==
    v # PyNone /\ v # PyInt(0) /\ v # PyStr("") /\ v # PyList(<<>>) /\ v # <<"tuple", <<>>>>

\* outcome of a Python call: a returned value or a raised exception
Return(v) == [raised |-> FALSE, ret |-> v]
Raise(e) == [raised |-> TRUE, exc |-> e]

\* the empty dict {}
EmptyDict == <<>>

\* a dict that stands where None can stand too (the `files` argument)
PyDict(d) == <<"dict", d>>


(***************************************************************************)
(* JSON texts.  A text is built the way json.dumps builds it and           *)
(* json.loads is the inverse over the documents of the model; every other  *)
(* text is not JSON.                                                       *)
(***************************************************************************)
JsonStr(s) == "\"" \o s \o "\""
JsonCode(v) == IF v = PyNone THEN "null" ELSE ToString(v[2])

\* make_xheader: the JSON text of the header dict
make_xheader(lms_callback_url, lms_key, queue_name) ==
    "{\"lms_callback_url\": " \o JsonStr(lms_callback_url)
        \o ", \"lms_key\": " \o JsonStr(lms_key)
        \o ", \"queue_name\": " \o JsonStr(queue_name) \o "}"

\* a header as the tests build it: no queue_name
HeaderWithoutQueueName(lms_callback_url, lms_key) ==
    "{\"lms_callback_url\": " \o JsonStr(lms_callback_url)
        \o ", \"lms_key\": " \o JsonStr(lms_key) \o "}"

\* the JSON text of an xqueue reply {'return_code': .., 'content': ..}
XReplyText(return_code, content) ==
    "{\"return_code\": " \o JsonCode(return_code)
        \o ", \"content\": " \o JsonStr(content) \o "}"

CallbackUrl == "http://example.com/courses/c/xqueue/block@item_id/type@problem"
LmsKeys == {"default", "k2"}
QueueNames == {"MITx-6.00x"}
ReturnCodes == {PyNone} \cup {PyInt(n) : n \in 0..MaxReturnCode}
Contents == {"login_required", "Submission sent successfully"}

HeaderDocs ==
    {[text |-> make_xheader(CallbackUrl, k, q),
      value |-> [lms_callback_url |-> CallbackUrl, lms_key |-> k, queue_name |-> q]]
        : k \in LmsKeys, q \in QueueNames}
    \cup
    {[text |-> HeaderWithoutQueueName(CallbackUrl, "default"),
      value |-> [lms_callback_url |-> CallbackUrl, lms_key |-> "default"]]}

ReplyDocs ==
    {[text |-> XReplyText(rc, c), value |-> [return_code |-> rc, content |-> c]]
        : rc \in ReturnCodes, c \in Contents}
    \cup
    {[text |-> "{}", value |-> EmptyDict],
     [text |-> "{\"return_code\": 0}", value |-> [return_code |-> PyInt(0)]]}

JsonDocs == HeaderDocs \cup ReplyDocs

\* json.loads: the parsed value, or ValueError for a text that is not JSON
json_loads(s) ==
    IF \E d \in JsonDocs : d.text = s
    THEN Return((CHOOSE d \in JsonDocs : d.text = s).value)
    ELSE Raise("ValueError")

\* d[key] of a dict
GetItem(d, key) == IF key \in DOMAIN d THEN Return(d[key]) ELSE Raise("KeyError")

Headers == {d.text : d \in HeaderDocs}
Bodies == {"{\"student_response\": \"student_answer\"}", "body2"}
NotJsonTexts == {"<html>502 Bad Gateway</html>", ""}
ReplyTexts == {d.text : d \in ReplyDocs} \cup NotJsonTexts
StatusCodes == {200, 404, 500}

(***************************************************************************)
(* parse_xreply and XQueueInterface._http_post                             *)
(***************************************************************************)
\* parse_xreply(xreply)
parse_xreply(xreply) ==
    LET parsed == json_loads(xreply) IN
    IF parsed.raised
    THEN Return(<<PyInt(1), "unexpected reply from server">>)
    ELSE LET return_code == GetItem(parsed.ret, "return_code")
             content == GetItem(parsed.ret, "content") IN
         IF return_code.raised THEN return_code
         ELSE IF content.raised THEN content
         ELSE Return(<<return_code.ret, content.ret>>)

\* what self.session.post can do: raise, or give a response
PostOutcomes ==
    {[kind |-> "ConnectionError"], [kind |-> "ReadTimeout"], [kind |-> "TooManyRedirects"]}
    \cup
    {[kind |-> "Response", status_code |-> s, text |-> t] : s \in StatusCodes, t \in ReplyTexts}

\* _http_post without the `except ReadTimeout` clause
http_post_timeout_uncaught(outcome) ==
    IF outcome.kind = "ConnectionError"
    THEN Return(<<PyInt(1), "cannot connect to server">>)
    ELSE IF outcome.kind # "Response"
    THEN Raise(outcome.kind)
    ELSE IF outcome.status_code \notin {200}
    THEN Return(<<PyInt(1),
                  "unexpected HTTP status code [" \o ToString(outcome.status_code) \o "]">>)
    ELSE parse_xreply(outcome.text)

\* _http_post, given what session.post did
http_post(outcome) ==
    IF outcome.kind = "ConnectionError"
    THEN Return(<<PyInt(1), "cannot connect to server">>)
    ELSE IF outcome.kind = "ReadTimeout"
    THEN Return(<<PyInt(1), "failed to read from the server">>)
    ELSE IF outcome.kind # "Response"
    THEN Raise(outcome.kind)
    ELSE IF outcome.status_code \notin {200}
    THEN Return(<<PyInt(1),
                  "unexpected HTTP status code [" \o ToString(outcome.status_code) \o "]">>)
    ELSE parse_xreply(outcome.text)

\* the session.post call _http_post makes
PostCall(u, data, files) == [op |-> "post", url |-> u, data |-> data, files |-> files]


(***************************************************************************)
(* XQueueInterface.send_to_queue                                           *)
(***************************************************************************)
Files == 1..NumFiles
\* f.name of a file object: files 1 and 2 carry the same name
FileName(f) == "upload" \o ToString((f + 1) \div 2)

RECURSIVE SeqsUpTo(_)
SeqsUpTo(n) ==
    IF n = 0 THEN {<<>>}
    ELSE SeqsUpTo(n - 1) \cup {Append(q, f) : q \in {r \in SeqsUpTo(n - 1) : Len(r) = n - 1}, f \in Files}

FilesToUpload == {PyNone} \cup {PyList(q) : q \in SeqsUpTo(MaxUpload)}

Urls == {"http://example.com/xqueue"}
Blocks == {PyNone, <<"ProblemBlock", 1>>}
DjangoAuth == [username |-> "user", password |-> "pass"]

\* a variable that holds nothing yet: a local before its assignment
NoValue == <<"unset">>
NoRecord == [unset |-> TRUE]

\* files.update({f.name: f}) for every f of the list, in order
RECURSIVE files_update(_, _)
files_update(files, fs) ==
    IF fs = <<>> THEN files
    ELSE files_update(
             [n \in DOMAIN files \cup {FileName(Head(fs))} |->
                 IF n = FileName(Head(fs)) THEN Head(fs) ELSE files[n]],
             Tail(fs))

\* the dict `files` of _send_to_queue
files_dict(to_upload) ==
    PyDict(IF to_upload # PyNone THEN files_update(EmptyDict, to_upload[2]) ELSE EmptyDict)

\* the dict `payload` of _send_to_queue
submit_payload(h, b) == [xqueue_header |-> h, xqueue_body |-> b]

\* queue_key = json.loads(header)["lms_key"]
queue_key_of(h) == GetItem(json_loads(h).ret, "lms_key")

\* the flag alone decides, the block is not looked at
via_submission_service_flag_only(blk, flag) == flag

\* the flag read the wrong way round
via_submission_service_inverted(blk, flag) == blk # PyNone /\ ~flag

\* _send_to_queue goes to the submission service, not to the HTTP endpoint
via_submission_service(blk, flag) == blk # PyNone /\ flag

\* what send_to_submission can do
SubmissionOutcomes == {[kind |-> "Returned"], [kind |-> "SubmissionError"]}

\* the external call one _send_to_queue makes
submit_call(blk, flag, u, h, b, to_upload) ==
    IF via_submission_service(blk, flag)
    THEN [op |-> "send_to_submission", header |-> h, body |-> b,
          queue_key |-> queue_key_of(h).ret, files |-> files_dict(to_upload)]
    ELSE PostCall(u \o "/xqueue/submit/", submit_payload(h, b), files_dict(to_upload))

\* header_info["lms_key"] is read, and can fail, whenever there is a block
key_error(blk, h) == blk # PyNone /\ queue_key_of(h).raised

\* what _send_to_queue gives back, given what its external call did
submit_result(blk, flag, h, outcome) ==
    IF key_error(blk, h) THEN Raise("KeyError")
    ELSE IF via_submission_service(blk, flag)
    THEN IF outcome.kind = "Returned" THEN Return(<<PyNone, "">>) ELSE Raise(outcome.kind)
    ELSE http_post(outcome)

\* `if error:` and `if msg == "login_required":`, each one half of the condition
login_needed_any_error(e, m) == Truthy(e)
login_needed_msg_only(e, m) == m = "login_required"

\* `if error and (msg == "login_required")`
login_needed(e, m) == Truthy(e) /\ m = "login_required"

\* `if error == 1`
login_failed_only_one(e) == e = PyInt(1)

\* `if error != 0` after _login
login_failed(e) == e # PyInt(0)

\* the call _login makes
login_call(u) == PostCall(u \o "/xqueue/login/", DjangoAuth, PyNone)

\* f.seek(0) for every f of files_to_upload
seek_calls(to_upload) ==
    IF to_upload # PyNone
    THEN [i \in 1..Len(to_upload[2]) |-> [op |-> "seek", file |-> to_upload[2][i], pos |-> 0]]
    ELSE <<>>

\* a rewind that reaches the first file of the list only
rewind_first_file(to_upload, pos) ==
    IF to_upload # PyNone
    THEN [f \in Files |-> IF Len(to_upload[2]) >= 1 /\ to_upload[2][1] = f THEN 0 ELSE pos[f]]
    ELSE pos

\* the read positions after the loop `for f in files_to_upload: f.seek(0)`
rewind(to_upload, pos) ==
    IF to_upload # PyNone
    THEN [f \in Files |-> IF \E i \in 1..Len(to_upload[2]) : to_upload[2][i] = f THEN 0 ELSE pos[f]]
    ELSE pos

\* requests reads the uploaded files to their end while it prepares the POST,
\* before anything is sent: whatever becomes of the post, each file is at its
\* end.  On the way through send_to_submission the interface itself reads
\* nothing.
read_files(outcome, files, pos) ==
    IF outcome.kind \in {"Response", "ConnectionError", "ReadTimeout", "TooManyRedirects"}
    THEN [f \in Files |-> IF \E n \in DOMAIN files[2] : files[2][n] = f THEN 1 ELSE pos[f]]
    ELSE pos

XQInit ==
    /\ url \in Urls
    /\ block \in Blocks
    /\ use_submission_service \in BOOLEAN
    /\ xq_pc = "idle"
    /\ header = NoValue /\ body = NoValue /\ files_to_upload = NoValue
    /\ error = NoValue /\ msg = NoValue
    /\ xq_result = NoRecord
    /\ calls = <<>>
    /\ filepos = [f \in Files |-> 0]
    /\ http_outcome = NoRecord /\ http_result = NoRecord

\* send_to_queue is entered (lines 101-117)
SendToQueue(h, b, to_upload) ==
    /\ xq_pc = "idle"
    /\ header' = h /\ body' = b /\ files_to_upload' = to_upload
    /\ xq_pc' = IF json_loads(h).raised THEN "raised" ELSE "submit1"
    /\ xq_result' = IF json_loads(h).raised THEN json_loads(h) ELSE NoRecord
    /\ UNCHANGED <<url, block, use_submission_service, error, msg, calls, filepos,
                   http_outcome, http_result, xq_others>>

\* one _send_to_queue: the external call, its logging and its effect on the files
Submit(outcome, res) ==
    /\ outcome \in (IF via_submission_service(block, use_submission_service)
                    THEN SubmissionOutcomes ELSE PostOutcomes)
    /\ res = submit_result(block, use_submission_service, header, outcome)
    /\ IF key_error(block, header)
       THEN UNCHANGED <<calls, filepos, http_outcome, http_result>>
       ELSE /\ calls' = Append(calls, submit_call(block, use_submission_service, url,
                                                  header, body, files_to_upload))
            /\ filepos' = read_files(outcome, files_dict(files_to_upload), filepos)
            /\ IF via_submission_service(block, use_submission_service)
               THEN UNCHANGED <<http_outcome, http_result>>
               ELSE http_outcome' = outcome /\ http_result' = res

\* first attempt and the decision to log in (lines 119-123, 135)
FirstSubmit(outcome) ==
    /\ xq_pc = "submit1"
    /\ LET res == submit_result(block, use_submission_service, header, outcome) IN
       /\ Submit(outcome, res)
       /\ IF res.raised
          THEN /\ xq_pc' = "raised" /\ xq_result' = res
               /\ UNCHANGED <<error, msg>>
          ELSE /\ error' = res.ret[1] /\ msg' = res.ret[2]
               /\ IF login_needed(res.ret[1], res.ret[2])
                  THEN xq_pc' = "login" /\ UNCHANGED xq_result
                  ELSE xq_pc' = "done" /\ xq_result' = Return(<<res.ret[1], res.ret[2]>>)
    /\ UNCHANGED <<url, block, use_submission_service, header, body, files_to_upload,
                   xq_others>>

\* _login, the check of its result and the rewinding of the files (lines 124-132)
Login(outcome) ==
    /\ xq_pc = "login"
    /\ outcome \in PostOutcomes
    /\ LET res == http_post(outcome) IN
       /\ http_outcome' = outcome /\ http_result' = res
       /\ IF res.raised
          THEN /\ xq_pc' = "raised" /\ xq_result' = res
               /\ calls' = Append(calls, login_call(url))
               /\ UNCHANGED <<error, filepos>>
          ELSE /\ error' = res.ret[1]
               /\ IF login_failed(res.ret[1])
                  THEN /\ xq_pc' = "done" /\ xq_result' = Return(<<res.ret[1], res.ret[2]>>)
                       /\ calls' = Append(calls, login_call(url))
                       /\ UNCHANGED filepos
                  ELSE /\ xq_pc' = "submit2" /\ UNCHANGED xq_result
                       /\ calls' = Append(calls, login_call(url)) \o seek_calls(files_to_upload)
                       /\ filepos' = rewind(files_to_upload, filepos)
    /\ UNCHANGED <<url, block, use_submission_service, header, body, files_to_upload, msg,
                   xq_others>>

\* second attempt; its result is the result of the call (lines 133-135)
SecondSubmit(outcome) ==
    /\ xq_pc = "submit2"
    /\ LET res == submit_result(block, use_submission_service, header, outcome) IN
       /\ Submit(outcome, res)
       /\ IF res.raised
          THEN /\ xq_pc' = "raised" /\ xq_result' = res
               /\ UNCHANGED <<error, msg>>
          ELSE /\ error' = res.ret[1] /\ msg' = res.ret[2]
               /\ xq_pc' = "done" /\ xq_result' = Return(<<res.ret[1], res.ret[2]>>)
    /\ UNCHANGED <<url, block, use_submission_service, header, body, files_to_upload,
                   xq_others>>

\* the caller has the result; the interface is ready for the next call
XQReturn ==
    /\ xq_pc \in {"done", "raised"}
    /\ xq_pc' = "idle"
    /\ header' = NoValue /\ body' = NoValue /\ files_to_upload' = NoValue
    /\ error' = NoValue /\ msg' = NoValue /\ xq_result' = NoRecord
    /\ calls' = <<>>
    /\ filepos' = [f \in Files |-> 0]
    /\ http_outcome' = NoRecord /\ http_result' = NoRecord
    /\ UNCHANGED <<url, block, use_submission_service, xq_others>>


\* some caller calls send_to_queue
Call ==
    /\ xq_pc = "idle"
    /\ \E h \in Headers, b \in Bodies, f \in FilesToUpload : SendToQueue(h, b, f)

\* the steps of the call, with whatever the server or the submission service does
StepFirstSubmit ==
    /\ xq_pc = "submit1"
    /\ \E o \in PostOutcomes \cup SubmissionOutcomes : FirstSubmit(o)
StepLogin ==
    /\ xq_pc = "login"
    /\ \E o \in PostOutcomes : Login(o)
StepSecondSubmit ==
    /\ xq_pc = "submit2"
    /\ \E o \in PostOutcomes \cup SubmissionOutcomes : SecondSubmit(o)

XQNext ==
    \/ Call
    \/ StepFirstSubmit
    \/ StepLogin
    \/ StepSecondSubmit
    \/ XQReturn

(***************************************************************************)
(* GenerateReportView                                                      *)
(***************************************************************************)
\* an exception object: its class and str(error)
Exc(type, text) == [type |-> type, text |-> text]

\* d.get(key, default) of a dict
DictGet(d, key, default) == IF key \in DOMAIN d THEN d[key] ELSE default

\* ', '.join(q)
RECURSIVE JoinComma(_)
JoinComma(q) ==
    IF q = <<>> THEN ""
    ELSE IF Len(q) = 1 THEN Head(q)
    ELSE Head(q) \o ", " \o JoinComma(Tail(q))

\* the values of constants.ReportType
ENROLLED_STUDENTS == "enrolled_students"
PENDING_ENROLLMENTS == "pending_enrollments"
PENDING_ACTIVATIONS == "pending_activations"
ANONYMIZED_STUDENT_IDS == "anonymized_student_ids"
GRADE == "grade"
PROBLEM_GRADE == "problem_grade"
PROBLEM_RESPONSES == "problem_responses"
ORA2_SUMMARY == "ora2_summary"
ORA2_DATA == "ora2_data"
ORA2_SUBMISSION_FILES == "ora2_submission_files"
ISSUED_CERTIFICATES == "issued_certificates"
UNKNOWN == "unknown"

\* the report_type values a URL can carry: the enum's values and other words
ReportTypes ==
    {ENROLLED_STUDENTS, PENDING_ENROLLMENTS, PENDING_ACTIVATIONS, ANONYMIZED_STUDENT_IDS,
     GRADE, PROBLEM_GRADE, PROBLEM_RESPONSES, ORA2_SUMMARY, ORA2_DATA,
     ORA2_SUBMISSION_FILES, ISSUED_CERTIFICATES, UNKNOWN, "invalid_type", "GRADE"}

VIEW_ISSUED_CERTIFICATES == "VIEW_ISSUED_CERTIFICATES"
CAN_RESEARCH == "CAN_RESEARCH"
Permissions == {VIEW_ISSUED_CERTIFICATES, CAN_RESEARCH}
\* no permission has been asked for yet
NotChecked == "not checked"

\* GenerateReportView.permission_name with every report given the research permission
permission_name_always_research(rt) == CAN_RESEARCH

\* GenerateReportView.permission_name
permission_name(rt) ==
    IF rt = ISSUED_CERTIFICATES THEN VIEW_ISSUED_CERTIFICATES ELSE CAN_RESEARCH

\* report_handlers with the grade and problem_grade entries exchanged
report_handlers_swapped(rt) ==
    CASE rt = ENROLLED_STUDENTS -> "_generate_enrolled_students_report"
      [] rt = PENDING_ENROLLMENTS -> "_generate_pending_enrollments_report"
      [] rt = PENDING_ACTIVATIONS -> "_generate_pending_activations_report"
      [] rt = ANONYMIZED_STUDENT_IDS -> "_generate_anonymized_ids_report"
      [] rt = GRADE -> "_generate_problem_grade_report"
      [] rt = PROBLEM_GRADE -> "_generate_grade_report"
      [] rt = PROBLEM_RESPONSES -> "_generate_problem_responses_report"
      [] rt = ORA2_SUMMARY -> "_generate_ora2_summary_report"
      [] rt = ORA2_DATA -> "_generate_ora2_data_report"
      [] rt = ORA2_SUBMISSION_FILES -> "_generate_ora2_submission_files_report"
      [] rt = ISSUED_CERTIFICATES -> "_generate_issued_certificates_report"
      [] OTHER -> "None"

\* report_handlers.get(report_type): the handler's name, "None" when there is none
report_handlers(rt) ==
    CASE rt = ENROLLED_STUDENTS -> "_generate_enrolled_students_report"
      [] rt = PENDING_ENROLLMENTS -> "_generate_pending_enrollments_report"
      [] rt = PENDING_ACTIVATIONS -> "_generate_pending_activations_report"
      [] rt = ANONYMIZED_STUDENT_IDS -> "_generate_anonymized_ids_report"
      [] rt = GRADE -> "_generate_grade_report"
      [] rt = PROBLEM_GRADE -> "_generate_problem_grade_report"
      [] rt = PROBLEM_RESPONSES -> "_generate_problem_responses_report"
      [] rt = ORA2_SUMMARY -> "_generate_ora2_summary_report"
      [] rt = ORA2_DATA -> "_generate_ora2_data_report"
      [] rt = ORA2_SUBMISSION_FILES -> "_generate_ora2_submission_files_report"
      [] rt = ISSUED_CERTIFICATES -> "_generate_issued_certificates_report"
      [] OTHER -> "None"

\* courses: one that exists and one that does not
CourseKeys == {"course-v1:edX+GenReportTestX+GenReport_Test_Course",
               "course-v1:edX+NonExistent+2024"}
ExistingCourses == {"course-v1:edX+GenReportTestX+GenReport_Test_Course"}

\* what a task_api submission (or the report store upload) can do
TaskOk == Exc("ok", "")
TaskOutcomes ==
    {TaskOk,
     Exc("AlreadyRunningError", "Task already running"),
     Exc("QueueConnectionError", "Cannot connect to queue"),
     Exc("ValueError", "Invalid parameter"),
     Exc("RuntimeError", "boom")}

\* one call into task_api, the analytics module or the report store
TaskCall(fn, args) == [fn |-> fn, args |-> args]

\* what a handler did: the calls it made, and its return value or exception
Handled(tasks, out) == [tasks |-> tasks, out |-> out]

\* a handler that submits one task and returns its message
submit_and_report(fn, args, message, outcome) ==
    Handled(<<TaskCall(fn, args)>>, IF outcome = TaskOk THEN Return(message) ELSE Raise(outcome))

(***************************************************************************)
(* _generate_problem_responses_report                                      *)
(***************************************************************************)
Whitespace == {" "}
LocChars == {" ", "b", "1"}

RECURSIVE TextsUpTo(_)
TextsUpTo(n) ==
    IF n = 0 THEN {<<>>}
    ELSE TextsUpTo(n - 1)
         \cup {Append(t, c) : t \in {r \in TextsUpTo(n - 1) : Len(r) = n - 1}, c \in LocChars}

\* texts are sequences of characters, so that strip() is computed
Texts == TextsUpTo(MaxLocLen)

RECURSIVE lstrip(_)
lstrip(t) == IF t # <<>> /\ Head(t) \in Whitespace THEN lstrip(Tail(t)) ELSE t
RECURSIVE rstrip(_)
rstrip(t) ==
    IF t # <<>> /\ t[Len(t)] \in Whitespace THEN rstrip(SubSeq(t, 1, Len(t) - 1)) ELSE t
\* str.strip()
strip(t) == rstrip(lstrip(t))

\* UsageKey.from_string accepts the text: 'b' followed by one or more '1'
IsUsageKey(t) == Len(t) >= 2 /\ t[1] = "b" /\ \A i \in 2..Len(t) : t[i] = "1"
UsageKeys == {t \in Texts : IsUsageKey(t)}
\* the items of the course in the modulestore: one usage key has an item
StoreItems == {<<"b", "1">>}

\* request.data of a problem_responses request
ProblemLocations == {PyText(t) : t \in Texts} \cup {PyNone, PyInt(5)}
ProblemTypeFilters == {PyStr("multiplechoiceresponse")}
RequestData ==
    {EmptyDict}
    \cup {[k \in {"problem_location"} |-> l] : l \in ProblemLocations}
    \cup {[k \in {"problem_location", "problem_types_filter"} |->
              IF k = "problem_location" THEN l ELSE f]
            : l \in {PyText(t) : t \in UsageKeys \cup {<<>>}}, f \in ProblemTypeFilters}

\* _generate_problem_responses_report
generate_problem_responses_report(data, ck, items, outcome) ==
    LET raw == DictGet(data, "problem_location", PyText(<<>>))
        problem_types_filter == DictGet(data, "problem_types_filter", PyNone) IN
    IF raw[1] # "str"
    THEN Handled(<<>>, Raise(Exc("AttributeError", "object has no attribute 'strip'")))
    ELSE LET problem_location == strip(raw[2]) IN
         IF problem_location = <<>>
         THEN Handled(<<>>, Raise(Exc("ValueError",
                                      "Specify Section or Problem block id is required.")))
         ELSE IF ~IsUsageKey(problem_location)
         THEN Handled(<<>>, Raise(Exc("ValueError", "Invalid problem location format.")))
         ELSE IF problem_location \notin items
         THEN Handled(<<>>, Raise(Exc("ValueError",
                                      "The problem location does not exist in this course.")))
         ELSE submit_and_report("submit_calculate_problem_responses_csv",
                                <<ck, problem_location, problem_types_filter>>,
                                "The problem responses report is being created.", outcome)

(***************************************************************************)
(* _generate_enrolled_students_report                                      *)
(***************************************************************************)
DefaultQueryFeatures ==
    <<"id", "username", "name", "email", "language", "location",
      "year_of_birth", "gender", "level_of_education", "mailing_address",
      "goals", "enrollment_mode", "last_login", "date_joined", "external_user_key",
      "enrollment_date">>

\* what get_available_features returns (the value the tests give it)
AvailableFeatures == {"id", "username", "email", "custom_field"}

PyTuple(q) == <<"tuple", q>>

\* entries a configured attribute list can hold
AttrEntries == {PyStr("custom_field"), PyStr("bogus"), PyStr(""), PyInt(1)}

RECURSIVE AttrListsUpTo(_)
AttrListsUpTo(n) ==
    IF n = 0 THEN {<<>>}
    ELSE AttrListsUpTo(n - 1)
         \cup {Append(q, e) : q \in {r \in AttrListsUpTo(n - 1) : Len(r) = n - 1},
                              e \in AttrEntries}

\* values of the additional_student_profile_attributes setting
AdditionalAttributes ==
    {PyNone, PyStr(""), PyInt(0), PyStr("custom_field"), PyInt(5),
     PyTuple(<<PyStr("custom_field")>>)}
    \cup {PyList(q) : q \in AttrListsUpTo(MaxAttrs)}

\* the settings and course properties the enrolled-students handler reads
Config(download_fields, additional, private_fields, cohorted, teams) ==
    [student_profile_download_fields |-> download_fields,
     additional_student_profile_attributes |-> additional,
     PROFILE_INFORMATION_REPORT_PRIVATE_FIELDS |-> private_fields,
     is_course_cohorted |-> cohorted,
     teams_enabled |-> teams]

DefaultConfig == Config(<<>>, PyNone, <<"year_of_birth">>, FALSE, FALSE)

Configs ==
    {Config(d, a, p, c, t) :
        d \in {<<>>, <<"id", "year_of_birth">>},
        a \in AdditionalAttributes,
        p \in {<<>>, <<"year_of_birth">>},
        c \in BOOLEAN, t \in BOOLEAN}

\* all(isinstance(v, str) for v in q)
AllStrings(q) == \A i \in 1..Len(q) : q[i][1] = "str"
\* any(v == '' for v in q)
AnyEmpty(q) == \E i \in 1..Len(q) : q[i] = PyStr("")
\* the texts of a list of strings
RECURSIVE Names(_)
Names(q) == IF q = <<>> THEN <<>> ELSE <<Head(q)[2]>> \o Names(Tail(q))
\* [v for v in names if v not in available_features]
NotAvailable(names) == SelectSeq(names, LAMBDA v : v \notin AvailableFeatures)

\* tools.keep_field_private: the field is taken out of the list
RECURSIVE keep_field_private(_, _)
keep_field_private(query_features, field) ==
    IF query_features = <<>> THEN <<>>
    ELSE IF Head(query_features) = field THEN Tail(query_features)
    ELSE <<Head(query_features)>> \o keep_field_private(Tail(query_features), field)

\* for field in PROFILE_INFORMATION_REPORT_PRIVATE_FIELDS: keep_field_private(..)
RECURSIVE keep_fields_private(_, _)
keep_fields_private(query_features, fields) ==
    IF fields = <<>> THEN query_features
    ELSE keep_fields_private(keep_field_private(query_features, Head(fields)), Tail(fields))

\* the check without the test against available_features
additional_attributes_error_any_name(additional) ==
    IF ~Truthy(additional) THEN ""
    ELSE IF additional[1] \notin {"list", "tuple"}
    THEN "Invalid additional student attribute configuration: expected list of strings, got "
             \o additional[1] \o "."
    ELSE IF ~AllStrings(additional[2])
    THEN "Invalid additional student attribute configuration: all entries must be strings."
    ELSE IF AnyEmpty(additional[2])
    THEN "Invalid additional student attribute configuration: empty attribute names are not allowed."
    ELSE ""

\* the check of additional_student_profile_attributes: the ValueError text, "" when valid
additional_attributes_error(additional) ==
    IF ~Truthy(additional) THEN ""
    ELSE IF additional[1] \notin {"list", "tuple"}
    THEN "Invalid additional student attribute configuration: expected list of strings, got "
             \o additional[1] \o "."
    ELSE IF ~AllStrings(additional[2])
    THEN "Invalid additional student attribute configuration: all entries must be strings."
    ELSE IF AnyEmpty(additional[2])
    THEN "Invalid additional student attribute configuration: empty attribute names are not allowed."
    ELSE IF NotAvailable(Names(additional[2])) # <<>>
    THEN "Invalid additional student attributes: "
             \o JoinComma(NotAvailable(Names(additional[2])))
    ELSE ""

\* the query_features list submitted for a valid configuration
enrolled_students_features(cfg) ==
    LET configured == cfg.student_profile_download_fields
        base == IF configured = <<>> THEN DefaultQueryFeatures ELSE configured
        additional == cfg.additional_student_profile_attributes
        extended == IF Truthy(additional) THEN base \o Names(additional[2]) ELSE base
        kept == keep_fields_private(extended, cfg.PROFILE_INFORMATION_REPORT_PRIVATE_FIELDS)
        cohort == IF cfg.is_course_cohorted THEN <<"cohort">> ELSE <<>>
        team == IF cfg.teams_enabled THEN <<"team">> ELSE <<>>
    IN  kept \o cohort \o team \o <<"city", "country">>

\* _generate_enrolled_students_report
generate_enrolled_students_report(ck, cfg, outcome) ==
    IF additional_attributes_error(cfg.additional_student_profile_attributes) # ""
    THEN Handled(<<>>, Raise(Exc("ValueError",
             additional_attributes_error(cfg.additional_student_profile_attributes))))
    ELSE submit_and_report("submit_calculate_students_features_csv",
                           <<ck, enrolled_students_features(cfg)>>,
                           "The enrolled student report is being created.", outcome)

(***************************************************************************)
(* _generate_issued_certificates_report                                    *)
(***************************************************************************)
CertificateHeader ==
    <<"CourseID", "Certificate Type", "Total Certificates Issued", "Date Report Run">>
\* the data rows format_dictlist gives for the issued certificates of a course
CertificateRows == {<<>>, <<<<"course", "honor", "3", "2024-01-01">>>>}

\* _generate_issued_certificates_report
generate_issued_certificates_report(ck, rows, outcome) ==
    Handled(<<TaskCall("issued_certificates",
                       <<ck, <<"course_id", "mode", "total_issued_certificate",
                               "report_run_date">>>>),
              TaskCall("upload_csv_file_to_report_store",
                       <<<<CertificateHeader>> \o rows, "issued_certificates", ck,
                         "GRADES_DOWNLOAD">>)>>,
            IF outcome = TaskOk
            THEN Return("The issued certificates report has been created.")
            ELSE Raise(outcome))

(***************************************************************************)
(* GenerateReportView.post                                                 *)
(***************************************************************************)
\* handler(request, course_key)
run_handler(handler, data, ck, cfg, items, rows, outcome) ==
    CASE handler = "_generate_enrolled_students_report" ->
             generate_enrolled_students_report(ck, cfg, outcome)
      [] handler = "_generate_pending_enrollments_report" ->
             submit_and_report("submit_calculate_may_enroll_csv", <<ck, <<"email">>>>,
                               "The pending enrollments report is being created.", outcome)
      [] handler = "_generate_pending_activations_report" ->
             submit_and_report("submit_calculate_inactive_enrolled_students_csv",
                               <<ck, <<"email">>>>,
                               "The pending activations report is being created.", outcome)
      [] handler = "_generate_anonymized_ids_report" ->
             submit_and_report("generate_anonymous_ids", <<ck>>,
                               "The anonymized student IDs report is being created.", outcome)
      [] handler = "_generate_grade_report" ->
             submit_and_report("submit_calculate_grades_csv", <<ck>>,
                               "The grade report is being created.", outcome)
      [] handler = "_generate_problem_grade_report" ->
             submit_and_report("submit_problem_grade_report", <<ck>>,
                               "The problem grade report is being created.", outcome)
      [] handler = "_generate_problem_responses_report" ->
             generate_problem_responses_report(data, ck, items, outcome)
      [] handler = "_generate_ora2_summary_report" ->
             submit_and_report("submit_export_ora2_summary", <<ck>>,
                               "The ORA2 summary report is being created.", outcome)
      [] handler = "_generate_ora2_data_report" ->
             submit_and_report("submit_export_ora2_data", <<ck>>,
                               "The ORA2 data report is being created.", outcome)
      [] handler = "_generate_ora2_submission_files_report" ->
             submit_and_report("submit_export_ora2_submission_files", <<ck>>,
                               "The ORA2 submission files archive is being created.", outcome)
      [] handler = "_generate_issued_certificates_report" ->
             generate_issued_certificates_report(ck, rows, outcome)

HttpResponse(status, data) == [status |-> status, data |-> data]

\* the except clauses of post with ValueError caught first
handler_response_value_error_first(out) ==
    IF ~out.raised THEN Return(HttpResponse(200, [status |-> out.ret]))
    ELSE IF out.exc.type \in {"ValueError", "AlreadyRunningError", "QueueConnectionError"}
    THEN Return(HttpResponse(400, [error |-> out.exc.text]))
    ELSE Raise(out.exc)

\* the try/except of post around the handler call, and the final Response
handler_response(out) ==
    IF ~out.raised THEN Return(HttpResponse(200, [status |-> out.ret]))
    ELSE IF out.exc.type = "AlreadyRunningError"
    THEN Return(HttpResponse(400,
             [error |-> "A report generation task is already running. Please wait for it to complete."]))
    ELSE IF out.exc.type = "QueueConnectionError"
    THEN Return(HttpResponse(503,
             [error |-> "Unable to connect to the task queue. Please try again later."]))
    ELSE IF out.exc.type = "ValueError"
    THEN Return(HttpResponse(400, [error |-> out.exc.text]))
    ELSE Raise(out.exc)

\* GenerateReportView.post: the handlers invoked, the calls made, the response
post(rt, data, ck, cfg, items, rows, outcome) ==
    LET handler == report_handlers(rt) IN
    IF handler = "None"
    THEN [handlers |-> <<>>, handler_out |-> NoRecord, tasks |-> <<>>,
          out |-> Return(HttpResponse(400, [error |-> "Invalid report type: " \o rt]))]
    ELSE LET h == run_handler(handler, data, ck, cfg, items, rows, outcome) IN
         [handlers |-> <<handler>>, handler_out |-> h.out, tasks |-> h.tasks,
          out |-> handler_response(h.out)]

RPIdle ==
    /\ rp_pc = "idle"
    /\ report_type = NoValue /\ request_data = NoValue /\ course_id = NoValue
    /\ authenticated = FALSE /\ user_perms = {}
    /\ site_config = DefaultConfig
    /\ store = StoreItems
    /\ perm_checked = NotChecked
    /\ handler_calls = <<>> /\ task_calls = <<>> /\ handler_out = NoRecord
    /\ response = NoRecord

RPInit ==
    /\ rp_pc = "idle"
    /\ report_type = NoValue /\ request_data = NoValue /\ course_id = NoValue
    /\ authenticated = FALSE /\ user_perms = {}
    /\ site_config = DefaultConfig
    /\ store = StoreItems
    /\ perm_checked = NotChecked
    /\ handler_calls = <<>> /\ task_calls = <<>> /\ handler_out = NoRecord
    /\ response = NoRecord

\* Request data other than {} is drawn for the problem_responses report and a
\* configuration other than the default for the enrolled_students report: no
\* other handler reads them.
RequestDataFor(rt) == IF rt = PROBLEM_RESPONSES THEN RequestData ELSE {EmptyDict}
ConfigsFor(rt) == IF rt = ENROLLED_STUDENTS THEN Configs ELSE {DefaultConfig}

\* a POST .../reports/{report_type}/generate arrives
ReportRequest(rt, ck, auth, perms, data, cfg) ==
    /\ rp_pc = "idle"
    /\ rp_pc' = "permission"
    /\ report_type' = rt /\ course_id' = ck
    /\ authenticated' = auth /\ user_perms' = perms
    /\ request_data' = data /\ site_config' = cfg
    /\ UNCHANGED <<store, perm_checked, handler_calls, handler_out, task_calls, response,
                   rp_others>>

\* permission_classes = (IsAuthenticated, InstructorPermission)
CheckPermissions ==
    /\ rp_pc = "permission"
    /\ IF ~authenticated
       THEN /\ rp_pc' = "denied" /\ response' = HttpResponse(401, EmptyDict)
            /\ UNCHANGED perm_checked
       ELSE IF course_id \notin ExistingCourses
       THEN /\ rp_pc' = "denied" /\ response' = HttpResponse(404, EmptyDict)
            /\ UNCHANGED perm_checked
       ELSE /\ perm_checked' = permission_name(report_type)
            /\ IF permission_name(report_type) \in user_perms
               THEN rp_pc' = "post" /\ UNCHANGED response
               ELSE rp_pc' = "denied" /\ response' = HttpResponse(403, EmptyDict)
    /\ UNCHANGED <<report_type, request_data, course_id, authenticated, user_perms,
                   site_config, store, handler_calls, handler_out, task_calls, rp_others>>

\* GenerateReportView.post runs
Post(rows, outcome) ==
    /\ rp_pc = "post"
    /\ \E p \in {post(report_type, request_data, course_id, site_config, store, rows, outcome)} :
       /\ handler_calls' = p.handlers
       /\ handler_out' = p.handler_out
       /\ task_calls' = p.tasks
       /\ IF p.out.raised
          THEN rp_pc' = "raised" /\ response' = [exception |-> p.out.exc]
          ELSE rp_pc' = "posted" /\ response' = p.out.ret
    /\ UNCHANGED <<report_type, request_data, course_id, authenticated, user_perms,
                   site_config, store, perm_checked, rp_others>>

\* the response is sent; the view is ready for the next request
RPReturn ==
    /\ rp_pc \in {"denied", "posted", "raised"}
    /\ rp_pc' = "idle"
    /\ report_type' = NoValue /\ request_data' = NoValue /\ course_id' = NoValue
    /\ authenticated' = FALSE /\ user_perms' = {}
    /\ site_config' = DefaultConfig
    /\ perm_checked' = NotChecked
    /\ handler_calls' = <<>> /\ task_calls' = <<>> /\ handler_out' = NoRecord
    /\ response' = NoRecord
    /\ UNCHANGED <<store, rp_others>>

\* some request arrives
Dispatch ==
    /\ rp_pc = "idle"
    /\ \E rt \in ReportTypes, ck \in CourseKeys, auth \in BOOLEAN, perms \in SUBSET Permissions :
           \E data \in RequestDataFor(rt), cfg \in ConfigsFor(rt) :
               ReportRequest(rt, ck, auth, perms, data, cfg)

\* post runs, with whatever the task queue and the certificate data turn out to be
RunPost ==
    /\ rp_pc = "post"
    /\ \E rows \in CertificateRows, outcome \in TaskOutcomes : Post(rows, outcome)

RPNext ==
    \/ Dispatch
    \/ CheckPermissions
    \/ RunPost
    \/ RPReturn

(***************************************************************************)
(* ReportDownloadsView                                                     *)
(***************************************************************************)
\* str operations, computed on the characters of the text
UpperLetters == "ABCDEFGHIJKLMNOPQRSTUVWXYZ"
LowerLetters == "abcdefghijklmnopqrstuvwxyz"
Digits == "0123456789"

\* the 1-based position of the character c in the text s, 0 when it is not there
IndexOf(s, c) ==
    IF \E i \in 1..Len(s) : SubSeq(s, i, i) = c
    THEN CHOOSE i \in 1..Len(s) : SubSeq(s, i, i) = c
    ELSE 0

\* the lower-case form of one character
lower_char(c) ==
    IF \E i \in 1..26 : SubSeq(UpperLetters, i, i) = c
    THEN LET i == CHOOSE j \in 1..26 : SubSeq(UpperLetters, j, j) = c
         IN SubSeq(LowerLetters, i, i)
    ELSE c

\* str.lower(): every character in lower case, computed by halves of the text
RECURSIVE lower(_)
lower(s) ==
    IF Len(s) = 0 THEN ""
    ELSE IF Len(s) = 1 THEN lower_char(s)
    ELSE lower(SubSeq(s, 1, Len(s) \div 2)) \o lower(SubSeq(s, Len(s) \div 2 + 1, Len(s)))

\* p in s
Contains(s, p) ==
    \E i \in 1..(Len(s) - Len(p) + 1) : SubSeq(s, i, i + Len(p) - 1) = p

\* the if/elif chain of _detect_report_type_from_filename over name_lower
detect_in_lower(name_lower) ==
    IF Contains(name_lower, "inactive_enrolled") THEN PENDING_ACTIVATIONS
    ELSE IF Contains(name_lower, "problem_grade_report") THEN PROBLEM_GRADE
    ELSE IF \/ Contains(name_lower, "ora2_submission")
            \/ Contains(name_lower, "submission_files")
            \/ Contains(name_lower, "ora_submission") THEN ORA2_SUBMISSION_FILES
    ELSE IF Contains(name_lower, "ora2_summary") \/ Contains(name_lower, "ora_summary")
    THEN ORA2_SUMMARY
    ELSE IF Contains(name_lower, "ora2_data") \/ Contains(name_lower, "ora_data")
    THEN ORA2_DATA
    ELSE IF Contains(name_lower, "may_enroll") THEN PENDING_ENROLLMENTS
    ELSE IF Contains(name_lower, "student_state") \/ Contains(name_lower, "problem_responses")
    THEN PROBLEM_RESPONSES
    ELSE IF Contains(name_lower, "anonymized_ids") \/ Contains(name_lower, "anon")
    THEN ANONYMIZED_STUDENT_IDS
    ELSE IF Contains(name_lower, "issued_certificates") \/ Contains(name_lower, "certificate")
    THEN ISSUED_CERTIFICATES
    ELSE IF Contains(name_lower, "grade_report") THEN GRADE
    ELSE IF Contains(name_lower, "enrolled_students") \/ Contains(name_lower, "profile")
    THEN ENROLLED_STUDENTS
    ELSE UNKNOWN

\* ReportDownloadsView._detect_report_type_from_filename: name_lower is
\* computed once, then searched
detect_report_type_from_filename(filename) ==
    CHOOSE t \in {detect_in_lower(name_lower) : name_lower \in {lower(filename)}} : TRUE

\* \d
IsDigit(c) == IndexOf(Digits, c) # 0
\* every character of the text is a digit
AllDigits(s) == \A i \in 1..Len(s) : IsDigit(SubSeq(s, i, i))

\* the pattern _(\d{4}-\d{2}-\d{2}-\d{4}) matches the text at position i
DatePatternAt(s, i) ==
    /\ i + 15 <= Len(s)
    /\ SubSeq(s, i, i) = "_"
    /\ AllDigits(SubSeq(s, i + 1, i + 4))
    /\ SubSeq(s, i + 5, i + 5) = "-"
    /\ AllDigits(SubSeq(s, i + 6, i + 7))
    /\ SubSeq(s, i + 8, i + 8) = "-"
    /\ AllDigits(SubSeq(s, i + 9, i + 10))
    /\ SubSeq(s, i + 11, i + 11) = "-"
    /\ AllDigits(SubSeq(s, i + 12, i + 15))

\* re.search: the position of the leftmost match, 0 when there is none
re_search_date(s) ==
    IF \E i \in 1..Len(s) : DatePatternAt(s, i)
    THEN CHOOSE i \in 1..Len(s) :
             DatePatternAt(s, i) /\ \A j \in 1..(i - 1) : ~DatePatternAt(s, j)
    ELSE 0

\* int() of a text of digits
RECURSIVE ParseInt(_)
ParseInt(s) ==
    IF s = "" THEN 0
    ELSE 10 * ParseInt(SubSeq(s, 1, Len(s) - 1)) + (IndexOf(Digits, SubSeq(s, Len(s), Len(s))) - 1)

IsLeapYear(y) == (y % 4 = 0 /\ y % 100 # 0) \/ y % 400 = 0
DaysInMonth(y, m) ==
    IF m = 2 THEN (IF IsLeapYear(y) THEN 29 ELSE 28)
    ELSE IF m \in {4, 6, 9, 11} THEN 30 ELSE 31

\* datetime.strptime(date_str, '%Y-%m-%d-%H%M') of a text the pattern matched
strptime(date_str) ==
    LET year == ParseInt(SubSeq(date_str, 1, 4))
        month == ParseInt(SubSeq(date_str, 6, 7))
        day == ParseInt(SubSeq(date_str, 9, 10))
        hour == ParseInt(SubSeq(date_str, 12, 13))
        minute == ParseInt(SubSeq(date_str, 14, 15))
    IN IF /\ year >= 1
          /\ month \in 1..12
          /\ day \in 1..DaysInMonth(year, month)
          /\ hour \in 0..23
          /\ minute \in 0..59
       THEN Return([year |-> year, month |-> month, day |-> day,
                    hour |-> hour, minute |-> minute, second |-> 0])
       ELSE Raise(Exc("ValueError", "time data does not match format"))

\* the number written with at least width digits
RECURSIVE ZeroPad(_, _)
ZeroPad(t, width) == IF Len(t) >= width THEN t ELSE ZeroPad("0" \o t, width)

\* dt.strftime('%Y-%m-%dT%H:%M:%SZ'); %Y of a year below 1000 is padded to four
\* digits on some platforms and not on others
strftime(dt, pads_year) ==
    (IF pads_year THEN ZeroPad(ToString(dt.year), 4) ELSE ToString(dt.year))
    \o "-" \o ZeroPad(ToString(dt.month), 2)
    \o "-" \o ZeroPad(ToString(dt.day), 2)
    \o "T" \o ZeroPad(ToString(dt.hour), 2)
    \o ":" \o ZeroPad(ToString(dt.minute), 2)
    \o ":" \o ZeroPad(ToString(dt.second), 2) \o "Z"

\* ReportDownloadsView._extract_date_from_filename
extract_date_from_filename(filename, pads_year) ==
    LET at == re_search_date(filename) IN
    IF at = 0 THEN PyNone
    ELSE LET dt == strptime(SubSeq(filename, at + 1, at + 15)) IN
         IF dt.raised THEN PyNone ELSE PyStr(strftime(dt.ret, pads_year))

\* the course of the tests
TestCoursePrefix == "course-v1_edX_ReportTestX_Report_Test_Course"

\* course prefixes of report files: the course of the tests, and courses whose
\* names hold, or end with the beginning of, a word the detection looks for
CoursePrefixes ==
    {TestCoursePrefix,
     "edX_Sec101_problem",
     "MITx_600_inactive",
     "edX_Canon_2024",
     "edX_Profile_1"}

\* the csv names of the report files the platform writes, some in other letter
\* case, and names of files that are no report of a known type
CsvNames ==
    {"grade_report", "enrolled_students", "problem_grade_report", "ora2_summary",
     "ora2_data", "ora2_submission_files", "certificate_report", "problem_responses",
     "may_enroll", "inactive_enrolled", "anon_ids",
     "GRADE_REPORT", "Problem_Grade_Report", "student_state_from_block",
     "cohort_results", "report"}

\* the timestamp part of a file name: well-formed and valid, well-formed and
\* not a date or time, not well-formed, absent
Timestamps ==
    {"2024-01-26-1030", "2024-02-29-2359", "2000-02-29-0000", "0999-01-01-1030",
     "0001-12-31-0905",
     "0000-01-01-0000", "2023-02-29-0000", "2100-02-29-0000", "2024-04-31-1200",
     "2024-01-00-1200", "2024-13-01-0000", "2024-00-10-0000", "2024-01-26-2400",
     "2024-01-26-0960",
     "2024-01-26-10305", "2024-13-01-0000_2024-01-26-1030",
     "2024-01-26-103", "20240126-1030", "2024-01-26", ""}

\* the platform writes the ORA2 submission files as an archive, reports as csv
extension_of(csv_name) == IF csv_name = "ora2_submission_files" THEN ".zip" ELSE ".csv"

\* a file of the report store: the parts its name was made of
ReportFile(prefix, csv_name, timestamp, ext) ==
    [course_prefix |-> prefix, csv_name |-> csv_name, timestamp |-> timestamp, ext |-> ext]

\* files of every course and csv name made at one time, and files of one course
\* with every timestamp
ReportFiles ==
    {ReportFile(p, c, "2024-01-26-1030", extension_of(c)) :
         p \in CoursePrefixes, c \in CsvNames}
    \cup {ReportFile(TestCoursePrefix, c, t, extension_of(c)) :
              c \in {"grade_report", "report"}, t \in Timestamps}

\* the file name format {course_prefix}_{csv_name}_{timestamp}.csv
report_filename(f) ==
    f.course_prefix \o "_" \o f.csv_name
        \o (IF f.timestamp = "" THEN "" ELSE "_" \o f.timestamp) \o f.ext

\* the url the report store gives for a file
report_url(ck, name) == "/grades/" \o ck \o "/" \o name

\* what report_store.links_for(course_key) can list: nothing, one file, or two
\* files of one kind made at one time, one of them with another course prefix
LinkListings ==
    {<<>>}
    \cup {<<f>> : f \in ReportFiles}
    \cup {<<ReportFile(TestCoursePrefix, c, "2024-01-26-1030", extension_of(c)),
            ReportFile(q, c, "2024-01-26-1030", extension_of(c))>> :
              q \in CoursePrefixes, c \in CsvNames}

\* one entry of downloads
download(ck, f, pads_year) ==
    LET name == report_filename(f) IN
    [report_name |-> name,
     report_url |-> report_url(ck, name),
     date_generated |-> extract_date_from_filename(name, pads_year),
     report_type |-> detect_report_type_from_filename(name)]

\* ReportDownloadsView.get
downloads_get(ck, links, pads_year) ==
    IF ck \notin ExistingCourses THEN Raise(Exc("Http404", "Course not found"))
    ELSE Return(HttpResponse(200,
             [downloads |-> [i \in 1..Len(links) |-> download(ck, links[i], pads_year)]]))

DLIdle ==
    /\ dl_pc = "idle"
    /\ dl_course_id = NoValue /\ dl_links = <<>>
    /\ dl_response = NoRecord
    /\ strftime_pads_year = FALSE

DLInit ==
    /\ dl_pc = "idle"
    /\ dl_course_id = NoValue /\ dl_links = <<>>
    /\ dl_response = NoRecord
    /\ strftime_pads_year \in BOOLEAN

\* a GET .../reports arrives from a user the permission classes let through
DownloadsRequest(ck, links) ==
    /\ dl_pc = "idle"
    /\ dl_pc' = "get"
    /\ dl_course_id' = ck /\ dl_links' = links
    /\ UNCHANGED <<dl_response, strftime_pads_year, dl_others>>

\* ReportDownloadsView.get runs
DownloadsGet ==
    /\ dl_pc = "get"
    /\ \E r \in {downloads_get(dl_course_id, dl_links, strftime_pads_year)} :
          IF r.raised
          THEN dl_pc' = "raised" /\ dl_response' = [exception |-> r.exc]
          ELSE dl_pc' = "done" /\ dl_response' = r.ret
    /\ UNCHANGED <<dl_course_id, dl_links, strftime_pads_year, dl_others>>

\* the response is sent; the view is ready for the next request
DLReturn ==
    /\ dl_pc \in {"done", "raised"}
    /\ dl_pc' = "idle"
    /\ dl_course_id' = NoValue /\ dl_links' = <<>>
    /\ dl_response' = NoRecord
    /\ UNCHANGED <<strftime_pads_year, dl_others>>

\* some request arrives
ListDownloads ==
    /\ dl_pc = "idle"
    /\ \E ck \in CourseKeys, links \in LinkListings : DownloadsRequest(ck, links)

DLNext ==
    \/ ListDownloads
    \/ DownloadsGet
    \/ DLReturn

(***************************************************************************)
(* GroupConfigurationsListView, GroupConfigurationDetailView               *)
(***************************************************************************)
COHORT_SCHEME == "cohort"

\* Group.to_json() as GroupSerializer renders it; usage is absent and skipped
Group(id, name) == [id |-> id, name |-> name, version |-> 1]
GroupA == Group(1, "Group A")
GroupB == Group(2, "Group B")
GroupLists == {<<>>, <<GroupA, GroupB>>, <<GroupB, GroupA>>}

\* a UserPartition of a course
UserPartition(id, name, groups, scheme_id) ==
    [id |-> id, name |-> name, description |-> "Test", groups |-> groups,
     scheme |-> scheme_id, active |-> TRUE]

PartitionIds == {50, 51}
SchemeIds == {COHORT_SCHEME, "random"}
UserPartitions ==
    {UserPartition(i, IF s = COHORT_SCHEME THEN "Content Groups" ELSE "Experiment Groups",
                   g, s) : i \in PartitionIds, s \in SchemeIds, g \in GroupLists}

\* course.user_partitions: up to MaxPartitions partitions
RECURSIVE PartitionListsUpTo(_)
PartitionListsUpTo(n) ==
    IF n = 0 THEN {<<>>}
    ELSE PartitionListsUpTo(n - 1)
         \cup {Append(q, p) : q \in {r \in PartitionListsUpTo(n - 1) : Len(r) = n - 1},
                              p \in UserPartitions}

\* the course_id of the URL: the course, a course that does not exist, and
\* texts that are no course key
GroupCourseIds ==
    {"course-v1:org+course+run", "course-v1:invalid+course+key", "not-a-course-key",
     "course-v1:org+course"}
GroupCourses == {"course-v1:org+course+run"}

\* the number of '+' in the text
RECURSIVE CountPlus(_)
CountPlus(s) ==
    IF Len(s) = 0 THEN 0
    ELSE (IF Head(s) = "+" THEN 1 ELSE 0) + CountPlus(Tail(s))

\* CourseKey.from_string accepts the text: course-v1:<org>+<course>+<run>
IsCourseKey(s) ==
    /\ Len(s) > 10 /\ SubSeq(s, 1, 10) = "course-v1:"
    /\ CountPlus(s) = 2

\* MFE_CONFIG of the site
MfeConfigs ==
    {EmptyDict, [k \in {"STUDIO_BASE_URL"} |-> "https://studio.example.com"]}

\* the configuration_id of the URL
ConfigurationIds == {"50", "51", "52", "050"}

\* None where a partition is expected
NoPartition == [none |-> TRUE]

\* partition_scheme.get_cohorted_user_partition: the first partition of the
\* course with the cohort scheme, None when there is none
get_cohorted_user_partition(user_partitions) ==
    IF \E i \in 1..Len(user_partitions) : user_partitions[i].scheme = COHORT_SCHEME
    THEN user_partitions[CHOOSE i \in 1..Len(user_partitions) :
             /\ user_partitions[i].scheme = COHORT_SCHEME
             /\ \A j \in 1..(i - 1) : user_partitions[j].scheme # COHORT_SCHEME]
    ELSE NoPartition

\* GroupSerializer(many=True) over the groups
serialize_groups(groups) ==
    [i \in 1..Len(groups) |->
        [id |-> groups[i].id, name |-> groups[i].name, version |-> groups[i].version]]

\* partition id and groups with the groups listed from the last to the first
partition_id_and_groups_reversed(content_group_partition) ==
    IF content_group_partition # NoPartition
    THEN [id |-> PyInt(content_group_partition.id),
          groups |-> [i \in 1..Len(content_group_partition.groups) |->
                         serialize_groups(content_group_partition.groups)[
                             Len(content_group_partition.groups) - i + 1]]]
    ELSE [id |-> PyNone, groups |-> <<>>]

\* "Extract partition ID and groups, or None/empty list if no partition exists"
partition_id_and_groups(content_group_partition) ==
    IF content_group_partition # NoPartition
    THEN [id |-> PyInt(content_group_partition.id),
          groups |-> serialize_groups(content_group_partition.groups)]
    ELSE [id |-> PyNone, groups |-> <<>>]

\* openedx.core.lib.courses.get_course_by_id: the course, or Http404 when the
\* modulestore has no such course
get_course_by_id(ck) ==
    IF ck \notin GroupCourses THEN Raise(Exc("Http404", "Course not found"))
    ELSE Return(ck)

\* GroupConfigurationsListView.get
list_get(ck, user_partitions, mfe_config) ==
    IF ~IsCourseKey(ck)
    THEN Return(HttpResponse(400, [error |-> "Invalid course key: " \o ck]))
    ELSE IF get_course_by_id(ck).raised
    THEN IF get_course_by_id(ck).exc.type = "ItemNotFoundError"
         THEN Return(HttpResponse(404, [error |-> "Course not found: " \o ck]))
         ELSE get_course_by_id(ck)
    ELSE LET found == partition_id_and_groups(get_cohorted_user_partition(user_partitions))
             studio_base_url == DictGet(mfe_config, "STUDIO_BASE_URL", "")
         IN Return(HttpResponse(200,
                [id |-> found.id,
                 groups |-> found.groups,
                 studio_content_groups_link |->
                     studio_base_url \o "/course/" \o ck \o "/group_configurations"]))

\* the loop over course.user_partitions with the scheme not looked at
find_partition_any_scheme(user_partitions, configuration_id) ==
    LET matches(p) == p.id = ParseInt(configuration_id) IN
    IF \E i \in 1..Len(user_partitions) : matches(user_partitions[i])
    THEN user_partitions[CHOOSE i \in 1..Len(user_partitions) :
             /\ matches(user_partitions[i])
             /\ \A j \in 1..(i - 1) : ~matches(user_partitions[j])]
    ELSE NoPartition

\* the loop of GroupConfigurationDetailView.get over course.user_partitions
find_partition(user_partitions, configuration_id) ==
    LET matches(p) == p.id = ParseInt(configuration_id) /\ p.scheme = COHORT_SCHEME IN
    IF \E i \in 1..Len(user_partitions) : matches(user_partitions[i])
    THEN user_partitions[CHOOSE i \in 1..Len(user_partitions) :
             /\ matches(user_partitions[i])
             /\ \A j \in 1..(i - 1) : ~matches(user_partitions[j])]
    ELSE NoPartition

\* ContentGroupConfigurationSerializer over partition.to_json()
serialize_partition(p) ==
    [id |-> PyInt(p.id), name |-> p.name, scheme |-> p.scheme,
     description |-> p.description, parameters |-> EmptyDict,
     groups |-> serialize_groups(p.groups), active |-> p.active, version |-> 3]

\* GroupConfigurationDetailView.get
detail_get(ck, configuration_id, user_partitions) ==
    IF ~IsCourseKey(ck)
    THEN Return(HttpResponse(400, [error |-> "Invalid course key: " \o ck]))
    ELSE IF get_course_by_id(ck).raised
    THEN IF get_course_by_id(ck).exc.type = "ItemNotFoundError"
         THEN Return(HttpResponse(404, [error |-> "Course not found: " \o ck]))
         ELSE get_course_by_id(ck)
    ELSE LET partition == find_partition(user_partitions, configuration_id) IN
         IF partition = NoPartition
         THEN Return(HttpResponse(404, [error |-> "Content group configuration "
                                                  \o configuration_id \o " not found"]))
         ELSE Return(HttpResponse(200, serialize_partition(partition)))

GCIdle ==
    /\ gc_pc = "idle" /\ gc_view = NoValue
    /\ gc_course_id = NoValue /\ gc_configuration_id = NoValue
    /\ gc_user_partitions = <<>> /\ gc_mfe_config = EmptyDict
    /\ gc_response = NoRecord

GCInit ==
    /\ gc_pc = "idle" /\ gc_view = NoValue
    /\ gc_course_id = NoValue /\ gc_configuration_id = NoValue
    /\ gc_user_partitions \in PartitionListsUpTo(MaxPartitions)
    /\ gc_mfe_config \in MfeConfigs
    /\ gc_response = NoRecord

\* a GET .../group_configurations arrives from a user the permission classes let through
ListRequest(ck) ==
    /\ gc_pc = "idle"
    /\ gc_pc' = "get" /\ gc_view' = <<"list">>
    /\ gc_course_id' = ck /\ gc_configuration_id' = NoValue
    /\ UNCHANGED <<gc_user_partitions, gc_mfe_config, gc_response, gc_others>>

\* a GET .../group_configurations/{configuration_id} arrives
DetailRequest(ck, configuration_id) ==
    /\ gc_pc = "idle"
    /\ gc_pc' = "get" /\ gc_view' = <<"detail">>
    /\ gc_course_id' = ck /\ gc_configuration_id' = configuration_id
    /\ UNCHANGED <<gc_user_partitions, gc_mfe_config, gc_response, gc_others>>

\* GroupConfigurationsListView.get runs
ListGet ==
    /\ gc_pc = "get" /\ gc_view = <<"list">>
    /\ \E r \in {list_get(gc_course_id, gc_user_partitions, gc_mfe_config)} :
          IF r.raised
          THEN gc_pc' = "raised" /\ gc_response' = [exception |-> r.exc]
          ELSE gc_pc' = "done" /\ gc_response' = r.ret
    /\ UNCHANGED <<gc_view, gc_course_id, gc_configuration_id, gc_user_partitions,
                   gc_mfe_config, gc_others>>

\* GroupConfigurationDetailView.get runs
DetailGet ==
    /\ gc_pc = "get" /\ gc_view = <<"detail">>
    /\ \E r \in {detail_get(gc_course_id, gc_configuration_id, gc_user_partitions)} :
          IF r.raised
          THEN gc_pc' = "raised" /\ gc_response' = [exception |-> r.exc]
          ELSE gc_pc' = "done" /\ gc_response' = r.ret
    /\ UNCHANGED <<gc_view, gc_course_id, gc_configuration_id, gc_user_partitions,
                   gc_mfe_config, gc_others>>

\* the response is sent; the views are ready for the next request
GCReturn ==
    /\ gc_pc \in {"done", "raised"}
    /\ gc_pc' = "idle" /\ gc_view' = NoValue
    /\ gc_course_id' = NoValue /\ gc_configuration_id' = NoValue
    /\ gc_response' = NoRecord
    /\ UNCHANGED <<gc_user_partitions, gc_mfe_config, gc_others>>

\* some list request arrives
ListGroupConfigurations ==
    /\ gc_pc = "idle"
    /\ \E ck \in GroupCourseIds : ListRequest(ck)

\* some detail request arrives
GetGroupConfiguration ==
    /\ gc_pc = "idle"
    /\ \E ck \in GroupCourseIds, configuration_id \in ConfigurationIds :
           DetailRequest(ck, configuration_id)

GCNext ==
    \/ ListGroupConfigurations
    \/ GetGroupConfiguration
    \/ ListGet
    \/ DetailGet
    \/ GCReturn

(***************************************************************************)
(* content/search/documents.py: documents of the search index              *)
(***************************************************************************)
PyFloat(n) == <<"float", n>>

\* an opaque key of a content library: a collection locator, a container
\* locator or a usage key of a library block
OpaqueKey(kind, org, slug, type, id) ==
    [kind |-> kind, org |-> org, slug |-> slug, type |-> type, id |-> id]

CollectionKey == OpaqueKey("lib-collection", "Org1", "Lib_A", "", "Col-1")
UnderscoreCollectionKey == OpaqueKey("lib-collection", "Org1", "Lib_A", "", "_Col--2-")
ContainerTypes == {"unit", "subsection", "section"}
ContainerIdOf(container_type) ==
    CASE container_type = "unit" -> "unit-1"
      [] container_type = "subsection" -> "sub-1"
      [] container_type = "section" -> "sec-1"
ContainerKeys == {OpaqueKey("lct", "Org1", "Lib_A", t, ContainerIdOf(t)) : t \in ContainerTypes}
UsageKey == OpaqueKey("lb", "Org1", "Lib_A", "problem", "p1")
\* the usage key of a block of a course; slug holds course and run
CourseUsageKey == OpaqueKey("block-v1", "Org1", "C1+R1", "problem", "p1")
CollectionKeys == {CollectionKey, UnderscoreCollectionKey}
OpaqueKeys == CollectionKeys \cup ContainerKeys \cup {UsageKey}

\* str(key)
str_key(key) ==
    IF key.kind = "lib-collection"
    THEN key.kind \o ":" \o key.org \o ":" \o key.slug \o ":" \o key.id
    ELSE IF key.kind = "block-v1"
    THEN key.kind \o ":" \o key.org \o "+" \o key.slug
             \o "+type@" \o key.type \o "+block@" \o key.id
    ELSE key.kind \o ":" \o key.org \o ":" \o key.slug \o ":" \o key.type \o ":" \o key.id

\* key.context_key.is_course
is_course(key) == key.kind = "block-v1"

\* str(key.context_key): the key of the library, or of the course
context_key(key) ==
    IF is_course(key) THEN "course-v1:" \o key.org \o "+" \o key.slug
    ELSE "lib:" \o key.org \o ":" \o key.slug

\* django.utils.text.slugify on ASCII text: lower case, drop what is not a word
\* character, white space or hyphen, turn runs of hyphens and white space into
\* one hyphen, strip hyphens and underscores from both ends
IsSlugChar(c) ==
    IndexOf(LowerLetters, c) # 0 \/ IndexOf(Digits, c) # 0 \/ c = "_" \/ c = "-" \/ c = " "

RECURSIVE keep_slug_chars(_)
keep_slug_chars(s) ==
    IF Len(s) = 0 THEN ""
    ELSE IF Len(s) = 1 THEN (IF IsSlugChar(s) THEN s ELSE "")
    ELSE LET h == Len(s) \div 2
         IN keep_slug_chars(SubSeq(s, 1, h)) \o keep_slug_chars(SubSeq(s, h + 1, Len(s)))

IsHyphenOrSpace(c) == c = "-" \/ c = " "

RECURSIVE collapse_hyphens(_, _, _)
collapse_hyphens(s, lo, hi) ==
    IF lo > hi THEN ""
    ELSE IF lo = hi
    THEN (IF IsHyphenOrSpace(SubSeq(s, lo, lo))
          THEN (IF lo > 1 /\ IsHyphenOrSpace(SubSeq(s, lo - 1, lo - 1)) THEN "" ELSE "-")
          ELSE SubSeq(s, lo, lo))
    ELSE LET h == (lo + hi) \div 2
         IN collapse_hyphens(s, lo, h) \o collapse_hyphens(s, h + 1, hi)

RECURSIVE strip_hyphens(_)
strip_hyphens(s) ==
    IF Len(s) = 0 THEN s
    ELSE IF SubSeq(s, 1, 1) = "-" \/ SubSeq(s, 1, 1) = "_"
    THEN strip_hyphens(SubSeq(s, 2, Len(s)))
    ELSE IF SubSeq(s, Len(s), Len(s)) = "-" \/ SubSeq(s, Len(s), Len(s)) = "_"
    THEN strip_hyphens(SubSeq(s, 1, Len(s) - 1))
    ELSE s

slugify(value) ==
    CHOOSE r \in {strip_hyphens(collapse_hyphens(kept, 1, Len(kept))) :
                      kept \in {keep_slug_chars(lower(value))}} : TRUE

\* blake2b(key_bin, digest_size=4).hexdigest() of the keys of the model
blake2b_hexdigest(key_str) ==
    CASE key_str = "lib-collection:Org1:Lib_A:Col-1" -> "0a1feb58"
      [] key_str = "lib-collection:Org1:Lib_A:_Col--2-" -> "15a5242d"
      [] key_str = "lct:Org1:Lib_A:unit:unit-1" -> "207f8c62"
      [] key_str = "lct:Org1:Lib_A:subsection:sub-1" -> "bd02c43d"
      [] key_str = "lct:Org1:Lib_A:section:sec-1" -> "fa02d483"
      [] key_str = "lb:Org1:Lib_A:problem:p1" -> "52bf08e9"
      [] key_str = "block-v1:Org1+C1+R1+type@problem+block@p1" -> "ef5f46b5"

meili_id_from_opaque_key(key) ==
    slugify(str_key(key)) \o "-" \o blake2b_hexdigest(str_key(key))

\* SearchAccess.objects.get_or_create(context_key=...): the rows of the table
\* in the order of their ids; gives the id and the table afterwards
meili_access_id_from_context_key(search_access, ck) ==
    IF \E i \in 1..Len(search_access) : search_access[i] = ck
    THEN [id |-> CHOOSE i \in 1..Len(search_access) : search_access[i] = ck,
          search_access |-> search_access]
    ELSE [id |-> Len(search_access) + 1, search_access |-> Append(search_access, ck)]

searchable_doc_for_key(key) == [id |-> meili_id_from_opaque_key(key)]

\* dict.update and d[k] = v
dict_update(doc, d) ==
    [k \in DOMAIN doc \cup DOMAIN d |-> IF k \in DOMAIN d THEN d[k] ELSE doc[k]]
dict_set(d, k, v) == [x \in DOMAIN d \cup {k} |-> IF x = k THEN v ELSE d[x]]

\* ---- tags ----
\* an ObjectTag: the name of its taxonomy and get_lineage(), the values from
\* the root tag down to the tag itself
ObjectTag(taxonomy_name, lineage) == [taxonomy_name |-> taxonomy_name, lineage |-> lineage]

ObjectTags ==
    { ObjectTag("Difficulty", <<"Hard">>),
      ObjectTag("Location", <<"North America", "Canada", "Vancouver">>),
      ObjectTag("Location", <<"North America", "Canada">>),
      ObjectTag("Location", <<"North America", "Mexico">>),
      ObjectTag("Deep", <<"a", "b", "c", "d", "e">>),
      ObjectTag("A > B", <<"x > y", "z">>),
      ObjectTag("Sep", <<"p > > q">>) }

\* the tag lists of an object: up to n different tags in any order
RECURSIVE TagListsUpTo(_)
TagListsUpTo(n) ==
    IF n = 0 THEN {<<>>}
    ELSE LET shorter == TagListsUpTo(n - 1)
         IN shorter \cup {Append(q, t) : q \in {s \in shorter : Len(s) = n - 1},
                                        t \in ObjectTags}

NoRepeats(q) == \A i, j \in 1..Len(q) : i # j => q[i] # q[j]
TagLists == {q \in TagListsUpTo(MaxTags) : NoRepeats(q)}

\* str.replace(old, new): occurrences are found from the left and do not overlap
RECURSIVE str_replace(_, _, _)
str_replace(s, old, new) ==
    IF Len(s) < Len(old) THEN s
    ELSE IF SubSeq(s, 1, Len(old)) = old
    THEN new \o str_replace(SubSeq(s, Len(old) + 1, Len(s)), old, new)
    ELSE SubSeq(s, 1, 1) \o str_replace(SubSeq(s, 2, Len(s)), old, new)

\* sep.join(parts)
RECURSIVE str_join(_, _)
str_join(sep, parts) ==
    IF Len(parts) = 0 THEN ""
    ELSE IF Len(parts) = 1 THEN parts[1]
    ELSE parts[1] \o sep \o str_join(sep, Tail(parts))

\* parts[0:stop]
slice_to(parts, stop) == SubSeq(parts, 1, IF stop < Len(parts) THEN stop ELSE Len(parts))

InList(v, q) == \E i \in 1..Len(q) : q[i] = v

\* `for level in range(4)` of _tags_for_content_object, from `level` on
RECURSIVE add_levels(_, _, _)
add_levels(result, parts, level) ==
    IF level >= 4 THEN result
    ELSE LET new_value == str_join(" > ", slice_to(parts, level + 2))
             key == "level" \o ToString(level)
             added == IF key \notin DOMAIN result
                      THEN dict_set(result, key, <<new_value>>)
                      ELSE IF ~InList(new_value, result[key])
                      THEN dict_set(result, key, Append(result[key], new_value))
                      ELSE result
         IN IF Len(parts) = level + 2 THEN added
            ELSE add_levels(added, parts, level + 1)

\* `for obj_tag in all_tags` of _tags_for_content_object, from the i-th tag on
RECURSIVE add_tags(_, _, _)
add_tags(result, all_tags, i) ==
    IF i > Len(all_tags) THEN result
    ELSE LET obj_tag == all_tags[i]
             named == IF ~InList(obj_tag.taxonomy_name, result["taxonomy"])
                      THEN dict_set(result, "taxonomy",
                                    Append(result["taxonomy"], obj_tag.taxonomy_name))
                      ELSE result
             parts == [n \in 1..(Len(obj_tag.lineage) + 1) |->
                          str_replace((<<obj_tag.taxonomy_name>> \o obj_tag.lineage)[n],
                                      " > ", " _ ")]
         IN add_tags(add_levels(named, parts, 0), all_tags, i + 1)

\* _tags_for_content_object that builds the levels of an untagged object too
tags_for_content_object_no_clear(all_tags) ==
    [tags |-> add_tags([taxonomy |-> <<>>, level0 |-> <<>>], all_tags, 1)]

\* _tags_for_content_object; all_tags is tagging_api.get_object_tags(...).all()
tags_for_content_object(all_tags) ==
    IF all_tags = <<>>
    THEN [tags |-> EmptyDict]
    ELSE [tags |-> add_tags([taxonomy |-> <<>>, level0 |-> <<>>], all_tags, 1)]

searchable_doc_tags(key, all_tags) ==
    dict_update(searchable_doc_for_key(key), tags_for_content_object(all_tags))

searchable_doc_tags_for_collection(collection_key, all_tags) ==
    dict_update(searchable_doc_for_key(collection_key), tags_for_content_object(all_tags))

\* ---- collections ----
NoCollection == [none |-> TRUE]

\* a Collection row of the authoring tables, with the numbers of its entities
\* that have a draft and that have a published version
Collection(key, enabled, draft_entities, published_entities) ==
    [key |-> key, title |-> "Collection " \o key, description |-> "about " \o key,
     created |-> 100, modified |-> 200, enabled |-> enabled,
     draft_entities |-> draft_entities, published_entities |-> published_entities,
     learning_package_title |-> "Library A"]

Collections ==
    {Collection(k.id, enabled, n[1], n[2]) :
        k \in CollectionKeys, enabled \in BOOLEAN, n \in {<<0, 0>>, <<2, 1>>}}

\* lib_api.get_library_collection_from_locator: the collection of the library
\* with that key, or ContentLibraryCollectionNotFound
get_library_collection_from_locator(db_collection, collection_key) ==
    IF db_collection # NoCollection /\ db_collection.key = collection_key.id
    THEN Return(db_collection)
    ELSE Raise("ContentLibraryCollectionNotFound")

\* the fields doc.update(...) adds for a collection
collection_fields(collection_key, collection, access_id) ==
    [context_key |-> context_key(collection_key),
     org |-> collection_key.org,
     usage_key |-> str_key(collection_key),
     block_id |-> collection.key,
     type |-> "collection",
     display_name |-> collection.title,
     description |-> collection.description,
     created |-> PyFloat(collection.created),
     modified |-> PyFloat(collection.modified),
     num_children |-> collection.draft_entities,
     published |-> [num_children |-> collection.published_entities],
     access_id |-> access_id,
     breadcrumbs |-> <<[display_name |-> collection.learning_package_title]>>]

\* a doc that always carries '_disabled', with the negation of enabled
mark_disabled_always(doc, collection) ==
    dict_set(doc, "_disabled", ~collection.enabled)

\* "Disabled collections should be removed from the search index, so we mark
\* them as _disabled"
mark_disabled(doc, collection) ==
    IF ~collection.enabled THEN dict_set(doc, "_disabled", TRUE) ELSE doc

\* searchable_doc_for_collection(collection_key, collection=collection_arg):
\* what it returns or raises and the SearchAccess table afterwards
searchable_doc_for_collection(collection_key, collection_arg, db_collection, search_access) ==
    LET doc == searchable_doc_for_key(collection_key)
        found == get_library_collection_from_locator(db_collection, collection_key)
        collection == IF collection_arg # NoCollection THEN collection_arg
                      ELSE IF found.raised THEN NoCollection
                      ELSE found.ret
    IN IF collection = NoCollection
       THEN [out |-> Return(doc), search_access |-> search_access]
       ELSE IF collection.key # collection_key.id
       THEN [out |-> Raise("AssertionError"), search_access |-> search_access]
       ELSE LET access == meili_access_id_from_context_key(search_access,
                                                           context_key(collection_key))
            IN [out |-> Return(mark_disabled(
                            dict_update(doc, collection_fields(collection_key, collection,
                                                               access.id)),
                            collection)),
                search_access |-> access.search_access]

\* ---- containers ----
NoContainer == [none |-> TRUE]

ComponentChild(usage_key) == [usage_key |-> usage_key]
ContainerChild(container_key) == [container_key |-> container_key]

\* children a container of that type can have
ChildrenOf(container_type) ==
    CASE container_type = "unit" ->
            <<ComponentChild("lb:Org1:Lib_A:problem:p1"), ComponentChild("lb:Org1:Lib_A:html:h1")>>
      [] container_type = "subsection" ->
            <<ContainerChild("lct:Org1:Lib_A:unit:unit-1"), ContainerChild("lct:Org1:Lib_A:unit:unit-2")>>
      [] container_type = "section" ->
            <<ContainerChild("lct:Org1:Lib_A:subsection:sub-1"),
              ContainerChild("lct:Org1:Lib_A:subsection:sub-2")>>

\* a container of the library with its draft and published children
Container(container_key, last_published, has_unpublished_changes, published_version_num, draft_children, published_children) ==
    [container_key |-> str_key(container_key),
     display_name |-> "Draft " \o container_key.id,
     published_display_name |-> "Published " \o container_key.id,
     created |-> 100, modified |-> 200,
     last_published |-> last_published,
     has_unpublished_changes |-> has_unpublished_changes,
     published_version_num |-> published_version_num,
     draft_children |-> draft_children,
     published_children |-> published_children]

Containers ==
    UNION {
        {Container(k, PyNone, TRUE, PyNone, draft, <<>>) :
            draft \in {<<>>, ChildrenOf(k.type)}}
        \cup
        {Container(k, PyFloat(150), changed, PyInt(1), draft, SubSeq(ChildrenOf(k.type), 1, 1)) :
            changed \in BOOLEAN, draft \in {<<>>, ChildrenOf(k.type)}}
        : k \in ContainerKeys}

\* lib_api.get_container: the container with that key, or
\* ContentLibraryContainerNotFound
get_container(db_container, container_key) ==
    IF db_container # NoContainer /\ db_container.container_key = str_key(container_key)
    THEN Return(db_container)
    ELSE Raise("ContentLibraryContainerNotFound")

\* get_child_keys of searchable_doc_for_container
get_child_keys(container_type, children) ==
    IF container_type = "unit"
    THEN [i \in 1..Len(children) |-> children[i].usage_key]
    ELSE [i \in 1..Len(children) |-> children[i].container_key]

\* the doc built from the container key alone (documents.py:630-643)
container_base_doc(container_key, access_id) ==
    [id |-> meili_id_from_opaque_key(container_key),
     context_key |-> context_key(container_key),
     org |-> container_key.org,
     type |-> "library_container",
     block_type |-> container_key.type,
     usage_key |-> str_key(container_key),
     block_id |-> container_key.id,
     access_id |-> access_id,
     publish_status |-> "never",
     last_published |-> PyNone]

\* searchable_doc_for_container(container_key): what it returns and the
\* SearchAccess table afterwards
searchable_doc_for_container(container_key, db_container, search_access) ==
    LET access == meili_access_id_from_context_key(search_access, context_key(container_key))
        doc == container_base_doc(container_key, access.id)
        got == get_container(db_container, container_key)
    IN IF got.raised
       THEN [out |-> Return(doc), search_access |-> access.search_access]
       ELSE LET container == got.ret
                publish_status ==
                    IF container.last_published = PyNone THEN "never"
                    ELSE IF container.has_unpublished_changes THEN "modified"
                    ELSE "published"
                updated == dict_update(doc,
                    [display_name |-> container.display_name,
                     created |-> PyFloat(container.created),
                     modified |-> PyFloat(container.modified),
                     num_children |-> Len(container.draft_children),
                     content |-> [child_usage_keys |->
                                     get_child_keys(container_key.type, container.draft_children)],
                     publish_status |-> publish_status,
                     last_published |-> container.last_published])
                with_library == dict_set(updated, "breadcrumbs", <<[display_name |-> "Library A"]>>)
            IN [out |-> Return(
                    IF container.published_version_num # PyNone
                    THEN dict_set(with_library, "published",
                             [display_name |-> container.published_display_name,
                              num_children |-> Len(container.published_children),
                              content |-> [child_usage_keys |->
                                  get_child_keys(container_key.type, container.published_children)]])
                    ELSE with_library),
                search_access |-> access.search_access]

\* ---- the calls ----
\* ---- blocks ----
NoBlock == [none |-> TRUE]

\* an XBlock: its usage key (scope_ids.block_type is the type of the key), its
\* display name, edited_on (unset when the block has no such attribute), its
\* ancestors from the parent up to the course, and what index_dictionary() does
XBlock(usage_key, display_name, edited_on, ancestors, index_dictionary) ==
    [usage_key |-> usage_key, display_name |-> display_name, edited_on |-> edited_on,
     ancestors |-> ancestors, index_dictionary |-> index_dictionary]

\* a parent block of a course block
Ancestor(display_name, block_type, usage_key) ==
    [display_name |-> display_name, block_type |-> block_type, usage_key |-> usage_key]

AncestorLists ==
    {<<>>,
     <<Ancestor("Unit 1", "vertical", "block-v1:Org1+C1+R1+type@vertical+block@v1"),
       Ancestor("Course 1", "course", "block-v1:Org1+C1+R1+type@course+block@course")>>}

\* what index_dictionary() of a problem block gives, or that it fails
IndexDictionaries ==
    {Raise("RuntimeError"),
     Return([content_type |-> "CAPA"]),
     Return([content |-> [display_name |-> "Problem 1", capa_content |-> "What is 2 + 2?"],
             content_type |-> "CAPA",
             problem_types |-> <<"multiplechoiceresponse">>])}

EditedOn == {NoValue, PyFloat(250)}

\* the blocks of a course: the block as the modulestore gives it
CourseBlocks ==
    {[kind |-> "course", block |-> XBlock(CourseUsageKey, "Problem 1", e, a, d)] :
        e \in EditedOn, a \in AncestorLists, d \in IndexDictionaries}

\* the blocks of a library: LibraryXBlockMetadata, the title of the library, the
\* draft block and the published block, if there is one
LibraryBlocks ==
    {[kind |-> "library", usage_key |-> UsageKey, library_title |-> "Library A",
      created |-> 100, modified |-> 200, last_published |-> l,
      block |-> XBlock(UsageKey, "Problem 1", e, <<>>, d),
      block_published |-> b] :
        l \in {PyNone, PyInt(150), PyInt(300)}, e \in EditedOn, d \in IndexDictionaries,
        b \in {NoBlock,
               XBlock(UsageKey, "Problem 0", NoValue, <<>>,
                      Return([content |-> [display_name |-> "Problem 0",
                                           capa_content |-> "What is 1 + 1?"],
                              content_type |-> "CAPA"]))}}

\* del d[k]
dict_del(d, k) == [x \in DOMAIN d \ {k} |-> d[x]]

\* _get_content_from_block: the flattened index_dictionary(); None when
\* anything in it raises (the exception is logged).  Every "content" of the
\* model is a dict.
get_content_from_block(xblock) ==
    IF xblock.index_dictionary.raised THEN [none |-> TRUE]
    ELSE LET content_data == xblock.index_dictionary.ret
             typeless == IF "content_type" \in DOMAIN content_data
                         THEN dict_del(content_data, "content_type") ELSE content_data
         IN [none |-> FALSE,
             data |-> IF "content" \in DOMAIN typeless
                      THEN LET content == IF "display_name" \in DOMAIN typeless.content
                                          THEN dict_del(typeless.content, "display_name")
                                          ELSE typeless.content
                           IN dict_update(dict_del(typeless, "content"), content)
                      ELSE typeless]

\* _get_description_from_block_content: the text, or None; "in" on the None
\* that _get_content_from_block gave raises TypeError
get_description_from_block_content(block_type, block_content) ==
    IF block_type \notin {"html", "problem"} THEN Return(PyNone)
    ELSE IF block_content.none THEN Raise("TypeError")
    ELSE IF block_type = "html" /\ "html_content" \in DOMAIN block_content.data
    THEN Return(PyStr(block_content.data.html_content))
    ELSE IF block_type = "problem" /\ "capa_content" \in DOMAIN block_content.data
    THEN Return(PyStr(block_content.data.capa_content))
    ELSE Return(PyNone)

\* plain_text_math.process_mathjax: the texts of the model hold no math markup,
\* and such a text is given back as it is
process_mathjax(text) == text

\* the breadcrumbs of a course block: its ancestors from the course down, the
\* course itself without usage_key
RECURSIVE breadcrumbs_of(_)
breadcrumbs_of(ancestors) ==
    IF ancestors = <<>> THEN <<>>
    ELSE breadcrumbs_of(Tail(ancestors))
         \o << IF Head(ancestors).block_type # "course"
               THEN [display_name |-> Head(ancestors).display_name,
                     usage_key |-> Head(ancestors).usage_key]
               ELSE [display_name |-> Head(ancestors).display_name] >>

\* _fields_from_block(block): the fields and the SearchAccess table afterwards
fields_from_block(xblock, search_access) ==
    LET key == xblock.usage_key
        access == meili_access_id_from_context_key(search_access, context_key(key))
        block_data ==
            [usage_key |-> str_key(key),
             block_id |-> key.id,
             display_name |-> xblock.display_name,
             block_type |-> key.type,
             context_key |-> context_key(key),
             org |-> key.org,
             access_id |-> access.id,
             breadcrumbs |-> IF is_course(key) THEN breadcrumbs_of(xblock.ancestors) ELSE <<>>]
        with_modified == IF xblock.edited_on # NoValue
                         THEN dict_set(block_data, "modified", xblock.edited_on)
                         ELSE block_data
        content_data == get_content_from_block(xblock)
        with_content == dict_set(with_modified, "content",
                                 IF content_data.none THEN PyNone ELSE content_data.data)
        description == get_description_from_block_content(key.type, content_data)
    IN [fields |-> IF ~description.raised /\ Truthy(description.ret)
                   THEN dict_set(with_content, "description",
                                 process_mathjax(description.ret[2]))
                   ELSE with_content,
        search_access |-> access.search_access]

\* _published_data_from_block(block_published)
published_data_from_block(block_published) ==
    LET description == get_description_from_block_content(
                           block_published.usage_key.type,
                           get_content_from_block(block_published))
    IN [published |->
           IF ~description.raised /\ Truthy(description.ret)
           THEN [display_name |-> block_published.display_name,
                 description |-> description.ret[2]]
           ELSE [display_name |-> block_published.display_name]]

\* searchable_doc_for_course_block(block): what it returns and the SearchAccess
\* table afterwards
searchable_doc_for_course_block(xblock, search_access) ==
    LET doc == dict_update(searchable_doc_for_key(xblock.usage_key), [type |-> "course_block"])
        from_block == fields_from_block(xblock, search_access)
    IN [out |-> Return(dict_update(doc, from_block.fields)),
        search_access |-> from_block.search_access]

\* the publish status of a library block
block_publish_status(xblock_metadata) ==
    IF xblock_metadata.block_published = NoBlock THEN "never"
    ELSE IF /\ Truthy(xblock_metadata.last_published)
            /\ xblock_metadata.last_published[2] < xblock_metadata.modified
    THEN "modified"
    ELSE "published"

\* searchable_doc_for_library_block(xblock_metadata): what it returns and the
\* SearchAccess table afterwards
searchable_doc_for_library_block(xblock_metadata, search_access) ==
    LET doc == dict_update(searchable_doc_for_key(xblock_metadata.usage_key),
                   [type |-> "library_block",
                    breadcrumbs |-> <<>>,
                    created |-> PyFloat(xblock_metadata.created),
                    modified |-> PyFloat(xblock_metadata.modified),
                    last_published |-> IF Truthy(xblock_metadata.last_published)
                                       THEN PyFloat(xblock_metadata.last_published[2])
                                       ELSE PyNone,
                    publish_status |-> block_publish_status(xblock_metadata)])
        from_block == fields_from_block(xblock_metadata.block, search_access)
        with_fields == dict_update(doc, from_block.fields)
        with_published ==
            IF xblock_metadata.block_published # NoBlock
            THEN dict_update(with_fields,
                             published_data_from_block(xblock_metadata.block_published))
            ELSE with_fields
    IN [out |-> Return(dict_set(with_published, "breadcrumbs",
                                <<[display_name |-> xblock_metadata.library_title]>>)),
        search_access |-> from_block.search_access]

SearchFunctions ==
    {"_tags_for_content_object", "searchable_doc_tags", "searchable_doc_tags_for_collection",
     "searchable_doc_for_collection", "searchable_doc_for_container",
     "searchable_doc_for_course_block", "searchable_doc_for_library_block"}

SearchAccessTables == {<<>>, <<"lib:Org0:Lib_0">>}

SDIdle ==
    /\ sd_pc = "idle" /\ sd_function = NoValue /\ sd_key = NoRecord
    /\ sd_collection_arg = NoCollection
    /\ sd_object_tags = <<>> /\ sd_db_collection = NoCollection
    /\ sd_db_container = NoContainer /\ sd_db_block = NoBlock
    /\ sd_search_access = <<>>
    /\ sd_result = NoRecord

\* no call in progress; the library holds tags for the object, or a collection,
\* or a container, or the course or the library holds a block
SDInit ==
    /\ sd_pc = "idle" /\ sd_function = NoValue /\ sd_key = NoRecord
    /\ sd_collection_arg = NoCollection
    /\ sd_result = NoRecord
    /\ sd_search_access \in SearchAccessTables
    /\ \/ /\ sd_object_tags \in TagLists
          /\ sd_db_collection = NoCollection /\ sd_db_container = NoContainer
          /\ sd_db_block = NoBlock
       \/ /\ sd_object_tags = <<>>
          /\ sd_db_collection \in Collections /\ sd_db_container = NoContainer
          /\ sd_db_block = NoBlock
       \/ /\ sd_object_tags = <<>>
          /\ sd_db_collection = NoCollection /\ sd_db_container \in Containers
          /\ sd_db_block = NoBlock
       \/ /\ sd_object_tags = <<>>
          /\ sd_db_collection = NoCollection /\ sd_db_container = NoContainer
          /\ sd_db_block \in CourseBlocks \cup LibraryBlocks

\* a caller calls one of the functions
SearchCall(function, key, collection_arg) ==
    /\ sd_pc = "idle"
    /\ sd_pc' = "called"
    /\ sd_function' = function /\ sd_key' = key /\ sd_collection_arg' = collection_arg
    /\ UNCHANGED <<sd_object_tags, sd_db_collection, sd_db_container, sd_db_block,
                   sd_search_access,
                   sd_result, sd_others>>

CallTagsFunction ==
    /\ sd_pc = "idle"
    /\ \E function \in {"_tags_for_content_object", "searchable_doc_tags"}, key \in OpaqueKeys :
           SearchCall(function, key, NoCollection)

CallTagsForCollection ==
    /\ sd_pc = "idle"
    /\ \E key \in CollectionKeys :
           SearchCall("searchable_doc_tags_for_collection", key, NoCollection)

CallDocForCollection ==
    /\ sd_pc = "idle"
    /\ \E key \in CollectionKeys, collection_arg \in Collections \cup {NoCollection} :
           SearchCall("searchable_doc_for_collection", key, collection_arg)

CallDocForContainer ==
    /\ sd_pc = "idle"
    /\ \E key \in ContainerKeys : SearchCall("searchable_doc_for_container", key, NoCollection)

\* the indexer calls searchable_doc_for_course_block with a block of the course
CallDocForCourseBlock ==
    /\ sd_pc = "idle"
    /\ sd_db_block # NoBlock /\ sd_db_block.kind = "course"
    /\ SearchCall("searchable_doc_for_course_block", sd_db_block.block.usage_key, NoCollection)

\* the indexer calls searchable_doc_for_library_block with the metadata of a
\* block of the library
CallDocForLibraryBlock ==
    /\ sd_pc = "idle"
    /\ sd_db_block # NoBlock /\ sd_db_block.kind = "library"
    /\ SearchCall("searchable_doc_for_library_block", sd_db_block.usage_key, NoCollection)

TagsForContentObject ==
    /\ sd_pc = "called" /\ sd_function = "_tags_for_content_object"
    /\ sd_result' = Return(tags_for_content_object(sd_object_tags))
    /\ sd_pc' = "done"
    /\ UNCHANGED <<sd_function, sd_key, sd_collection_arg, sd_object_tags, sd_db_collection,
                   sd_db_container, sd_db_block, sd_search_access, sd_others>>

SearchableDocTags ==
    /\ sd_pc = "called" /\ sd_function = "searchable_doc_tags"
    /\ sd_result' = Return(searchable_doc_tags(sd_key, sd_object_tags))
    /\ sd_pc' = "done"
    /\ UNCHANGED <<sd_function, sd_key, sd_collection_arg, sd_object_tags, sd_db_collection,
                   sd_db_container, sd_db_block, sd_search_access, sd_others>>

SearchableDocTagsForCollection ==
    /\ sd_pc = "called" /\ sd_function = "searchable_doc_tags_for_collection"
    /\ sd_result' = Return(searchable_doc_tags_for_collection(sd_key, sd_object_tags))
    /\ sd_pc' = "done"
    /\ UNCHANGED <<sd_function, sd_key, sd_collection_arg, sd_object_tags, sd_db_collection,
                   sd_db_container, sd_db_block, sd_search_access, sd_others>>

SearchableDocForCollection ==
    /\ sd_pc = "called" /\ sd_function = "searchable_doc_for_collection"
    /\ \E r \in {searchable_doc_for_collection(sd_key, sd_collection_arg, sd_db_collection,
                                               sd_search_access)} :
           /\ sd_result' = r.out
           /\ sd_search_access' = r.search_access
    /\ sd_pc' = "done"
    /\ UNCHANGED <<sd_function, sd_key, sd_collection_arg, sd_object_tags, sd_db_collection,
                   sd_db_container, sd_db_block, sd_others>>

SearchableDocForContainer ==
    /\ sd_pc = "called" /\ sd_function = "searchable_doc_for_container"
    /\ \E r \in {searchable_doc_for_container(sd_key, sd_db_container, sd_search_access)} :
           /\ sd_result' = r.out
           /\ sd_search_access' = r.search_access
    /\ sd_pc' = "done"
    /\ UNCHANGED <<sd_function, sd_key, sd_collection_arg, sd_object_tags, sd_db_collection,
                   sd_db_container, sd_db_block, sd_others>>

SearchableDocForCourseBlock ==
    /\ sd_pc = "called" /\ sd_function = "searchable_doc_for_course_block"
    /\ \E r \in {searchable_doc_for_course_block(sd_db_block.block, sd_search_access)} :
           /\ sd_result' = r.out
           /\ sd_search_access' = r.search_access
    /\ sd_pc' = "done"
    /\ UNCHANGED <<sd_function, sd_key, sd_collection_arg, sd_object_tags, sd_db_collection,
                   sd_db_container, sd_db_block, sd_others>>

SearchableDocForLibraryBlock ==
    /\ sd_pc = "called" /\ sd_function = "searchable_doc_for_library_block"
    /\ \E r \in {searchable_doc_for_library_block(sd_db_block, sd_search_access)} :
           /\ sd_result' = r.out
           /\ sd_search_access' = r.search_access
    /\ sd_pc' = "done"
    /\ UNCHANGED <<sd_function, sd_key, sd_collection_arg, sd_object_tags, sd_db_collection,
                   sd_db_container, sd_db_block, sd_others>>

\* the caller takes the result
SDReturn ==
    /\ sd_pc = "done"
    /\ sd_pc' = "idle" /\ sd_function' = NoValue /\ sd_key' = NoRecord
    /\ sd_collection_arg' = NoCollection /\ sd_result' = NoRecord
    /\ UNCHANGED <<sd_object_tags, sd_db_collection, sd_db_container, sd_db_block,
                   sd_search_access,
                   sd_others>>

SDNext ==
    \/ CallTagsFunction
    \/ CallTagsForCollection
    \/ CallDocForCollection
    \/ CallDocForContainer
    \/ CallDocForCourseBlock
    \/ CallDocForLibraryBlock
    \/ TagsForContentObject
    \/ SearchableDocTags
    \/ SearchableDocTagsForCollection
    \/ SearchableDocForCollection
    \/ SearchableDocForContainer
    \/ SearchableDocForCourseBlock
    \/ SearchableDocForLibraryBlock
    \/ SDReturn

(***************************************************************************)
(* openedx-wasm/untrusted_code/wasm_helper.py: json_safe                   *)
(***************************************************************************)
\* Python values of the globals dict.  bytes carry whether they are valid
\* UTF-8 and the text they decode to; a dict is the list of its items in
\* insertion order.
PyBytes(valid, text) == <<"bytes", valid, text>>
PyBool(b) == <<"bool", b>>
PyItems(items) == <<"dict", items>>
PySet == <<"set">>
PyFunction == <<"function">>
PyFrozenset == <<"frozenset">>

TypeOf(v) == v[1]

\* isinstance(v, ok_types); bool is a subclass of int
ok_types == {"None", "int", "bool", "float", "bytes", "str", "list", "tuple", "dict"}

\* d[k] = v on a dict held as its item list
dict_assign(items, k, v) ==
    IF \E i \in 1..Len(items) : items[i][1] = k
    THEN [i \in 1..Len(items) |-> IF items[i][1] = k THEN <<k, v>> ELSE items[i]]
    ELSE Append(items, <<k, v>>)

\* a list or a dict cannot be the key of a dict: TypeError, unhashable type
Unhashable(k) == TypeOf(k) \in {"list", "dict"}

RECURSIVE decode_object(_)
RECURSIVE decode_list(_, _, _)
RECURSIVE decode_items(_, _, _)

\* decode_object (wasm_helper.py:17-44)
decode_object(obj) ==
    IF TypeOf(obj) = "bytes"
    THEN (IF obj[2] THEN Return(PyStr(obj[3])) ELSE Raise("UnicodeDecodeError"))
    ELSE IF TypeOf(obj) \in {"list", "tuple"}
    THEN decode_list(obj[2], 1, <<>>)
    ELSE IF TypeOf(obj) = "dict"
    THEN decode_items(obj[2], 1, <<>>)
    ELSE Return(obj)

\* `for i in obj` of decode_object, from the n-th element on
decode_list(q, n, new_list) ==
    IF n > Len(q) THEN Return(PyList(new_list))
    ELSE LET new_obj == decode_object(q[n])
         IN IF new_obj.raised THEN new_obj
            ELSE decode_list(q, n + 1, Append(new_list, new_obj.ret))

\* `for k, v in obj.items()` of decode_object, from the n-th item on
decode_items(items, n, new_dict) ==
    IF n > Len(items) THEN Return(PyItems(new_dict))
    ELSE LET new_key == decode_object(items[n][1])
             new_value == decode_object(items[n][2])
         IN IF new_key.raised THEN new_key
            ELSE IF new_value.raised THEN new_value
            ELSE IF Unhashable(new_key.ret) THEN Raise("TypeError")
            ELSE decode_items(items, n + 1,
                              dict_assign(new_dict, new_key.ret, new_value.ret))

\* the key of a JSON object that json.dumps writes for a dict key and
\* json.loads reads back: always a str
json_key(k) ==
    CASE TypeOf(k) = "str" -> Return(k)
      [] TypeOf(k) = "int" -> Return(PyStr(ToString(k[2])))
      [] TypeOf(k) = "bool" -> Return(PyStr(IF k[2] THEN "true" ELSE "false"))
      [] TypeOf(k) = "None" -> Return(PyStr("null"))
      [] OTHER -> Raise("TypeError")

RECURSIVE json_loads_dumps(_)
RECURSIVE json_list(_, _, _)
RECURSIVE json_items(_, _, _)

\* json.loads(json.dumps(obj)): tuples come back as lists, dict keys as str,
\* what the encoder does not know raises TypeError
json_loads_dumps(obj) ==
    IF TypeOf(obj) \in {"None", "int", "bool", "float", "str"}
    THEN Return(obj)
    ELSE IF TypeOf(obj) \in {"list", "tuple"}
    THEN json_list(obj[2], 1, <<>>)
    ELSE IF TypeOf(obj) = "dict"
    THEN json_items(obj[2], 1, <<>>)
    ELSE Raise("TypeError")

json_list(q, n, out) ==
    IF n > Len(q) THEN Return(PyList(out))
    ELSE LET e == json_loads_dumps(q[n])
         IN IF e.raised THEN e ELSE json_list(q, n + 1, Append(out, e.ret))

json_items(items, n, out) ==
    IF n > Len(items) THEN Return(PyItems(out))
    ELSE LET k == json_key(items[n][1])
             v == json_loads_dumps(items[n][2])
         IN IF k.raised THEN k
            ELSE IF v.raised THEN v
            ELSE json_items(items, n + 1, dict_assign(out, k.ret, v.ret))

bad_keys == {PyStr("__builtins__")}

\* the value and the key of one entry after line 59 and line 62, or the
\* exception the try block catches
entry_through_json(k, v) ==
    LET dv == decode_object(v)
        jv == IF dv.raised THEN dv ELSE json_loads_dumps(dv.ret)
        dk == decode_object(k)
        jk == IF dk.raised THEN dk ELSE json_loads_dumps(dk.ret)
    IN IF jv.raised THEN jv
       ELSE IF jk.raised THEN jk
       ELSE Return(<<jk.ret, jv.ret>>)

\* `for k, v in d.items()` of json_safe, from the n-th item on: the dict jd at
\* the end of the loop, or the exception that leaves the function
RECURSIVE json_safe_loop(_, _, _)
json_safe_loop(items, n, jd) ==
    IF n > Len(items) THEN Return(jd)
    ELSE LET k == items[n][1]
             v == items[n][2]
         IN IF TypeOf(v) \notin ok_types THEN json_safe_loop(items, n + 1, jd)
            ELSE IF k \in bad_keys THEN json_safe_loop(items, n + 1, jd)
            ELSE LET e == entry_through_json(k, v)
                 IN IF e.raised THEN json_safe_loop(items, n + 1, jd)
                    ELSE IF Unhashable(e.ret[1]) THEN Raise("TypeError")
                    ELSE json_safe_loop(items, n + 1, dict_assign(jd, e.ret[1], e.ret[2]))

\* json_safe(d) (wasm_helper.py:3-67)
json_safe(d) ==
    LET jd == json_safe_loop(d[2], 1, <<>>)
    IN IF jd.raised THEN jd ELSE json_loads_dumps(PyItems(jd.ret))

\* entries of the dicts handed to json_safe: every kind of key with a plain
\* value, every kind of value under a plain key, and keys that decode alike
JsonSafeKeys ==
    { PyStr("a"), PyStr("__builtins__"), PyStr("1"), PyBytes(TRUE, "a"), PyBytes(FALSE, ""),
      PyBytes(TRUE, "__builtins__"), PyInt(1), PyTuple(<<PyInt(1), PyInt(2)>>), PyFrozenset }

JsonSafeValues ==
    { PyNone, PyInt(7), PyBool(TRUE), PyFloat(2), PyStr("x"), PyBytes(TRUE, "y"),
      PyBytes(FALSE, ""), PyList(<<PyInt(1), PyBytes(TRUE, "z")>>), PyTuple(<<PyInt(1)>>),
      PyList(<<PyFunction>>), PyItems(<<<<PyInt(1), PyStr("v")>>>>),
      PyItems(<<<<PyTuple(<<PyInt(1)>>), PyStr("v")>>>>), PySet, PyFunction }

JsonSafeEntries ==
    {<<k, PyInt(7)>> : k \in JsonSafeKeys} \cup {<<PyStr("a"), v>> : v \in JsonSafeValues}
    \cup {<<PyStr("b"), PyStr("x")>>, <<PyBytes(TRUE, "a"), PyStr("x")>>}

\* the item lists of up to n entries from JsonSafeEntries with different keys
RECURSIVE ItemListsUpTo(_)
ItemListsUpTo(n) ==
    IF n = 0 THEN {<<>>}
    ELSE LET shorter == ItemListsUpTo(n - 1)
         IN shorter \cup
            {Append(q, e) : q \in {s \in shorter : Len(s) = n - 1},
                            e \in JsonSafeEntries}

DistinctKeys(items) == \A i, j \in 1..Len(items) : i # j => items[i][1] # items[j][1]

GlobalsDicts == {PyItems(items) : items \in {q \in ItemListsUpTo(MaxEntries) : DistinctKeys(q)}}

JSIdle == js_pc = "idle" /\ js_d = NoValue /\ js_result = NoRecord
JSInit == JSIdle

\* a caller hands a dict to json_safe
CallJsonSafe ==
    /\ js_pc = "idle"
    /\ \E d \in GlobalsDicts : js_d' = d
    /\ js_pc' = "called"
    /\ UNCHANGED <<js_result, js_others>>

JsonSafe ==
    /\ js_pc = "called"
    /\ js_result' = json_safe(js_d)
    /\ js_pc' = "done"
    /\ UNCHANGED <<js_d, js_others>>

\* the caller takes the result or the exception
JSReturn ==
    /\ js_pc = "done"
    /\ js_pc' = "idle" /\ js_d' = NoValue /\ js_result' = NoRecord
    /\ UNCHANGED js_others

JSNext ==
    \/ CallJsonSafe
    \/ JsonSafe
    \/ JSReturn

XQIdle ==
    /\ url \in Urls /\ block = PyNone /\ use_submission_service = FALSE
    /\ xq_pc = "idle"
    /\ header = NoValue /\ body = NoValue /\ files_to_upload = NoValue
    /\ error = NoValue /\ msg = NoValue /\ xq_result = NoRecord
    /\ calls = <<>> /\ filepos = [f \in Files |-> 0]
    /\ http_outcome = NoRecord /\ http_result = NoRecord

\* one XQueueInterface object serving send_to_queue calls
InitXQueue == XQInit /\ RPIdle /\ DLIdle /\ GCIdle /\ SDIdle /\ JSIdle
SpecXQueue == InitXQueue /\ [][XQNext]_vars

\* GenerateReportView serving POST requests
InitReport == XQIdle /\ RPInit /\ DLIdle /\ GCIdle /\ SDIdle /\ JSIdle
SpecReport == InitReport /\ [][RPNext]_vars

\* ReportDownloadsView serving GET requests
InitDownloads == XQIdle /\ RPIdle /\ DLInit /\ GCIdle /\ SDIdle /\ JSIdle
SpecDownloads == InitDownloads /\ [][DLNext]_vars

\* the group configuration views serving GET requests for one course
InitGroups == XQIdle /\ RPIdle /\ DLIdle /\ GCInit /\ SDIdle /\ JSIdle
SpecGroups == InitGroups /\ [][GCNext]_vars

\* the functions of documents.py called for the keys of one library
InitSearchDocs == XQIdle /\ RPIdle /\ DLIdle /\ GCIdle /\ SDInit /\ JSIdle
SpecSearchDocs == InitSearchDocs /\ [][SDNext]_vars

\* json_safe called on the globals dicts of the model
InitJsonSafe == XQIdle /\ RPIdle /\ DLIdle /\ GCIdle /\ SDIdle /\ JSInit
SpecJsonSafe == InitJsonSafe /\ [][JSNext]_vars

(***************************************************************************)
(* Properties of XQueueInterface (checked under SpecXQueue)                *)
(***************************************************************************)
IsSubmitPost(c) == c.op = "post" /\ c.url = url \o "/xqueue/submit/"
IsLoginPost(c) == c.op = "post" /\ c.url = url \o "/xqueue/login/"
IsSubmit(c) == c.op = "send_to_submission" \/ IsSubmitPost(c)
IsPost(c) == c.op = "post"
IsSeek(c) == c.op = "seek"
NotSeek(c) == c.op # "seek"
NSubmit(cs) == Len(SelectSeq(cs, IsSubmit))
NLogin(cs) == Len(SelectSeq(cs, IsLoginPost))
NPost(cs) == Len(SelectSeq(cs, IsPost))
\* the calls to the outside, without the seeks on local files
External(cs) == SelectSeq(cs, NotSeek)

\* C1: a login is attempted only after the first submit attempt returned an
\* error with message 'login_required'; a submit is re-attempted only after
\* that login returned error code 0; a call makes at most two submit attempts
\* and at most one login attempt; the result of the second submit is the
\* result of the call, with no further login or retry.
C1_RetryOnceOnLogin ==
    [][ /\ NLogin(calls') <= 1
        /\ NSubmit(calls') <= 2
        /\ (NLogin(calls') > NLogin(calls)) =>
              /\ NSubmit(calls) = 1 /\ NLogin(calls) = 0
              /\ error # PyInt(0) /\ error # PyNone /\ msg = "login_required"
              /\ http_result = Return(<<error, msg>>)
        /\ (NSubmit(calls') > NSubmit(calls) /\ NSubmit(calls) >= 1) =>
              /\ NLogin(calls) = 1
              /\ IsLoginPost(External(calls)[2])
              /\ ~http_result.raised /\ http_result.ret[1] = PyInt(0)
              /\ xq_pc' \in {"done", "raised"}
              /\ xq_result' = http_result'
      ]_vars

\* C1 witness: a call that retried and whose second submit was again
\* answered 'login_required' has returned that answer.
C1_Witness ==
    /\ xq_pc = "done"
    /\ NSubmit(calls) = 2 /\ NLogin(calls) = 1
    /\ xq_result = Return(<<PyInt(1), "login_required">>)

\* the submission of a finished call was accepted: the submission service
\* took it, or the xqueue server answered the last submit with return_code 0
Accepted ==
    IF via_submission_service(block, use_submission_service)
    THEN NSubmit(calls) >= 1
    ELSE /\ IsSubmitPost(External(calls)[Len(External(calls))])
         /\ http_outcome.kind = "Response" /\ http_outcome.status_code = 200
         /\ \E c \in Contents : http_outcome.text = XReplyText(PyInt(0), c)

\* C2: in every mode, a call whose submission was accepted returns an
\* error_code equal to 0 (error_code != 0 indicates an error).
C2_AcceptedReturnsZero ==
    (xq_pc = "done" /\ Accepted) => xq_result.ret[1] = PyInt(0)

\* C3: if the login triggered by a 'login_required' reply returns a non-zero
\* error code, send_to_queue returns the login's (error, content) pair and
\* makes no second submit attempt (and rewinds nothing).
C3_FailedLoginIsReturned ==
    ( /\ Len(External(calls)) >= 2
      /\ IsLoginPost(External(calls)[Len(External(calls))])
      /\ ~http_result.raised
      /\ http_result.ret[1] # PyInt(0) )
    => /\ xq_pc = "done"
       /\ xq_result = Return(http_result.ret)
       /\ NSubmit(calls) = 1
       /\ Len(calls) = 2

\* C3 witness: a login was answered with return_code null (None != 0) and
\* the call is over without a second submit.
C3_Witness ==
    /\ xq_pc = "done"
    /\ Len(calls) = 2 /\ IsLoginPost(calls[2])
    /\ xq_result = Return(<<PyNone, "Submission sent successfully">>)

\* C4: _http_post turns every handled failure into a value: connection error,
\* read timeout, a status other than 200 (whatever the body), a 200 body that
\* is not JSON; a 200 response with a JSON reply yields the reply's own
\* (return_code, content), and nothing else does.
C4_HttpPostFailuresAreValues ==
    (http_outcome # NoRecord) =>
        /\ (http_outcome.kind = "ConnectionError") =>
               http_result = Return(<<PyInt(1), "cannot connect to server">>)
        /\ (http_outcome.kind = "ReadTimeout") =>
               http_result = Return(<<PyInt(1), "failed to read from the server">>)
        /\ (http_outcome.kind = "Response" /\ http_outcome.status_code = 404) =>
               http_result = Return(<<PyInt(1), "unexpected HTTP status code [404]">>)
        /\ (http_outcome.kind = "Response" /\ http_outcome.status_code = 500) =>
               http_result = Return(<<PyInt(1), "unexpected HTTP status code [500]">>)
        /\ (http_outcome.kind = "Response" /\ http_outcome.status_code = 200
                /\ http_outcome.text \in NotJsonTexts) =>
               http_result = Return(<<PyInt(1), "unexpected reply from server">>)
        /\ \A rc \in ReturnCodes, c \in Contents :
               (http_outcome.kind = "Response" /\ http_outcome.status_code = 200
                    /\ http_outcome.text = XReplyText(rc, c)) =>
                   http_result = Return(<<rc, c>>)
        /\ (~http_result.raised /\ http_result.ret[1] # PyInt(1)) =>
               /\ http_outcome.kind = "Response" /\ http_outcome.status_code = 200
               /\ http_outcome.text \notin NotJsonTexts

\* C4 witness: a 404 response with a body that is a well-formed reply was
\* reported as the status failure.
C4_Witness ==
    /\ http_outcome # NoRecord
    /\ http_outcome.kind = "Response" /\ http_outcome.status_code = 404
    /\ http_outcome.text = XReplyText(PyInt(0), "Submission sent successfully")
    /\ http_result = Return(<<PyInt(1), "unexpected HTTP status code [404]">>)

\* the lms_key a header text carries
HeaderCarriesKey(h, k) ==
    \/ h = HeaderWithoutQueueName(CallbackUrl, k)
    \/ \E q \in QueueNames : h = make_xheader(CallbackUrl, k, q)

\* C5: with a block and use_submission_service=True, send_to_queue hands the
\* submission to send_to_submission exactly once, with (header, body, the
\* lms_key of the header, the files mapping, {} when no files are given), and
\* performs no HTTP POST and no login.
C5_SubmissionServiceOnly ==
    (block # PyNone /\ use_submission_service) =>
        /\ \A i \in 1..Len(calls) : calls[i].op = "send_to_submission"
        /\ Len(calls) <= 1
        /\ (xq_pc \in {"done", "raised"}) =>
              /\ Len(calls) = 1
              /\ calls[1].header = header /\ calls[1].body = body
              /\ HeaderCarriesKey(header, calls[1].queue_key)
              /\ calls[1].files[1] = "dict"
              /\ (files_to_upload = PyNone) => DOMAIN calls[1].files[2] = {}
              /\ (files_to_upload # PyNone) =>
                     /\ DOMAIN calls[1].files[2] =
                            {FileName(files_to_upload[2][i]) : i \in 1..Len(files_to_upload[2])}
                     /\ \A n \in DOMAIN calls[1].files[2] :
                            \E i \in 1..Len(files_to_upload[2]) :
                                /\ calls[1].files[2][n] = files_to_upload[2][i]
                                /\ FileName(files_to_upload[2][i]) = n
                                /\ \A j \in (i + 1)..Len(files_to_upload[2]) :
                                       FileName(files_to_upload[2][j]) # n

\* C5 witness: a finished call without files handed the test's header with
\* lms_key "default" and an empty files mapping to the submission service.
C5_Witness ==
    /\ block # PyNone /\ use_submission_service
    /\ xq_pc = "done"
    /\ files_to_upload = PyNone
    /\ Len(calls) = 1 /\ calls[1].op = "send_to_submission"
    /\ calls[1].header = HeaderWithoutQueueName(CallbackUrl, "default")
    /\ calls[1].queue_key = "default"
    /\ DOMAIN calls[1].files[2] = {}

\* the single POST of C6
IsTheSubmitPost(c) ==
    /\ c.op = "post"
    /\ c.url = url \o "/xqueue/submit/"
    /\ c.data = [xqueue_header |-> header, xqueue_body |-> body]
    /\ c.files[1] = "dict"
    /\ (files_to_upload = PyNone) => DOMAIN c.files[2] = {}

\* C6 as stated: with a block and use_submission_service=False, a call whose
\* submit succeeds performs exactly one HTTP POST, the submit POST.
C6_Original ==
    (block # PyNone /\ ~use_submission_service /\ xq_pc = "done"
        /\ xq_result.ret[1] = PyInt(0) /\ IsSubmitPost(External(calls)[Len(External(calls))]))
    => /\ NPost(calls) = 1
       /\ IsTheSubmitPost(calls[1])

\* C6 amended: with a block and use_submission_service=False, a call whose
\* first submit attempt succeeds performs exactly one HTTP POST, to
\* url + '/xqueue/submit/' with data {'xqueue_header': header, 'xqueue_body':
\* body} and files {} when no files are given; send_to_submission is never
\* called.
C6_FirstSubmitSucceeds ==
    /\ [](block # PyNone /\ ~use_submission_service =>
             \A i \in 1..Len(calls) : calls[i].op # "send_to_submission")
    /\ [][ (block # PyNone /\ ~use_submission_service /\ xq_pc = "submit1"
               /\ xq_pc' # "submit1"
               /\ ~http_result'.raised /\ http_result'.ret[1] = PyInt(0))
           => /\ xq_pc' = "done"
              /\ xq_result' = http_result'
              /\ Len(calls') = 1
              /\ IsTheSubmitPost(calls'[1])
         ]_vars

\* C6 witness: the test's case, one POST answered (0, ...), no files.
C6_Witness ==
    /\ block # PyNone /\ ~use_submission_service
    /\ xq_pc = "done"
    /\ files_to_upload = PyNone
    /\ xq_result = Return(<<PyInt(0), "Submission sent successfully">>)
    /\ Len(calls) = 1 /\ IsTheSubmitPost(calls[1])
    /\ DOMAIN calls[1].files[2] = {}

NSeek(cs) == Len(SelectSeq(cs, IsSeek))

\* every file of the list stands at position 0
AllRewound(to_upload, pos) ==
    \A i \in 1..Len(to_upload[2]) : pos[to_upload[2][i]] = 0

\* the seeks among the calls are one seek(0) per file of the list, in its order
SeeksCoverFiles(cs, to_upload) ==
    /\ NSeek(cs) = Len(to_upload[2])
    /\ \A i \in 1..Len(to_upload[2]) :
           /\ SelectSeq(cs, IsSeek)[i].file = to_upload[2][i]
           /\ SelectSeq(cs, IsSeek)[i].pos = 0

\* C20: when send_to_queue retries after a successful login and files were
\* supplied, every file of files_to_upload stands at position 0, by a
\* seek(0) made after the login, when the second submit attempt starts; a
\* call that makes no second submit attempt has rewound no file, and files are
\* rewound nowhere but on the way to the second attempt.
C20_FilesRewoundBeforeRetry ==
    [][ /\ (NSubmit(calls') > NSubmit(calls) /\ NSubmit(calls) = 1 /\ files_to_upload # PyNone) =>
              /\ xq_pc = "submit2"
              /\ AllRewound(files_to_upload, filepos)
              /\ SeeksCoverFiles(calls, files_to_upload)
              /\ IsLoginPost(calls[2])
              /\ \A n \in 3..Len(calls) : IsSeek(calls[n])
        /\ (NSubmit(calls') > NSubmit(calls) /\ NSubmit(calls) = 1 /\ files_to_upload = PyNone) =>
              NSeek(calls) = 0
        /\ (NSeek(calls') > NSeek(calls)) =>
              /\ xq_pc' = "submit2"
              /\ ~http_result'.raised /\ http_result'.ret[1] = PyInt(0)
        /\ (xq_pc' \in {"done", "raised"} /\ NSubmit(calls') < 2) => NSeek(calls') = 0
      ]_vars

\* C20 witness: a call with two different files, both read by the first
\* attempt, has logged in, rewound both and made its second attempt.
C20_Witness ==
    /\ xq_pc = "done"
    /\ NSubmit(calls) = 2 /\ NLogin(calls) = 1
    /\ files_to_upload = PyList(<<1, 2>>)
    /\ NSeek(calls) = 2
    /\ calls[3] = [op |-> "seek", file |-> 1, pos |-> 0]
    /\ calls[4] = [op |-> "seek", file |-> 2, pos |-> 0]

\* C21: when the interface has no block, every submit attempt is a POST to
\* url + '/xqueue/submit/' with the header and the body of the call, and
\* send_to_submission is never called, whatever use_submission_service is.
C21_NoBlockAlwaysLegacy ==
    [][ (block = PyNone) =>
            /\ \A i \in 1..Len(calls') : calls'[i].op # "send_to_submission"
            /\ (xq_pc \in {"submit1", "submit2"}) =>
                   /\ Len(calls') = Len(calls) + 1
                   /\ IsTheSubmitPost(calls'[Len(calls')])
                   /\ NSubmit(calls') = NSubmit(calls) + 1
      ]_vars

\* C21 witness: an interface without a block and with use_submission_service
\* set has finished a call of two submit attempts, both POSTs to the legacy
\* endpoint.
C21_Witness ==
    /\ block = PyNone /\ use_submission_service
    /\ xq_pc = "done"
    /\ NSubmit(calls) = 2
    /\ IsTheSubmitPost(calls[1])
    /\ IsTheSubmitPost(calls[Len(calls)])

(***************************************************************************)
(* Properties of GenerateReportView (checked under SpecReport)             *)
(***************************************************************************)
\* post has run to its end for the request
PostRan == rp_pc \in {"posted", "raised"}

\* C7: post maps the outcome of the report handler to the response:
\* AlreadyRunningError gives 400 with an 'error' field, QueueConnectionError
\* gives 503 with an 'error' field, ValueError gives 400 with 'error' equal to
\* the exception text, a normal return gives 200 with 'status' equal to the
\* handler's message.
C7_HandlerOutcomeToResponse ==
    (PostRan /\ handler_calls # <<>>) =>
        /\ (handler_out.raised /\ handler_out.exc.type = "AlreadyRunningError") =>
               /\ rp_pc = "posted" /\ response.status = 400
               /\ "error" \in DOMAIN response.data
        /\ (handler_out.raised /\ handler_out.exc.type = "QueueConnectionError") =>
               /\ rp_pc = "posted" /\ response.status = 503
               /\ "error" \in DOMAIN response.data
        /\ (handler_out.raised /\ handler_out.exc.type = "ValueError") =>
               /\ rp_pc = "posted" /\ response.status = 400
               /\ DOMAIN response.data = {"error"}
               /\ response.data.error = handler_out.exc.text
        /\ (~handler_out.raised) =>
               /\ rp_pc = "posted" /\ response.status = 200
               /\ DOMAIN response.data = {"status"}
               /\ response.data.status = handler_out.ret

\* C7 witness: the task queue could not be reached and the response is a 503.
C7_Witness ==
    /\ rp_pc = "posted"
    /\ handler_calls = <<"_generate_grade_report">>
    /\ handler_out = Raise(Exc("QueueConnectionError", "Cannot connect to queue"))
    /\ response.status = 503

\* the handler of each generatable report type
HandlerOfType ==
    [rt \in {"enrolled_students", "pending_enrollments", "pending_activations",
             "anonymized_student_ids", "grade", "problem_grade", "problem_responses",
             "ora2_summary", "ora2_data", "ora2_submission_files", "issued_certificates"} |->
        CASE rt = "enrolled_students" -> "_generate_enrolled_students_report"
          [] rt = "pending_enrollments" -> "_generate_pending_enrollments_report"
          [] rt = "pending_activations" -> "_generate_pending_activations_report"
          [] rt = "anonymized_student_ids" -> "_generate_anonymized_ids_report"
          [] rt = "grade" -> "_generate_grade_report"
          [] rt = "problem_grade" -> "_generate_problem_grade_report"
          [] rt = "problem_responses" -> "_generate_problem_responses_report"
          [] rt = "ora2_summary" -> "_generate_ora2_summary_report"
          [] rt = "ora2_data" -> "_generate_ora2_data_report"
          [] rt = "ora2_submission_files" -> "_generate_ora2_submission_files_report"
          [] rt = "issued_certificates" -> "_generate_issued_certificates_report"]

\* the functions a handler may call to submit its report
SubmitFunctionsOf ==
    [h \in {HandlerOfType[rt] : rt \in DOMAIN HandlerOfType} |->
        CASE h = "_generate_enrolled_students_report" -> {"submit_calculate_students_features_csv"}
          [] h = "_generate_pending_enrollments_report" -> {"submit_calculate_may_enroll_csv"}
          [] h = "_generate_pending_activations_report" ->
                 {"submit_calculate_inactive_enrolled_students_csv"}
          [] h = "_generate_anonymized_ids_report" -> {"generate_anonymous_ids"}
          [] h = "_generate_grade_report" -> {"submit_calculate_grades_csv"}
          [] h = "_generate_problem_grade_report" -> {"submit_problem_grade_report"}
          [] h = "_generate_problem_responses_report" -> {"submit_calculate_problem_responses_csv"}
          [] h = "_generate_ora2_summary_report" -> {"submit_export_ora2_summary"}
          [] h = "_generate_ora2_data_report" -> {"submit_export_ora2_data"}
          [] h = "_generate_ora2_submission_files_report" -> {"submit_export_ora2_submission_files"}
          [] h = "_generate_issued_certificates_report" ->
                 {"issued_certificates", "upload_csv_file_to_report_store"}]

\* C8: post invokes a report handler exactly when report_type is one of the
\* eleven generatable values, and then only the handler of that type, once;
\* for every other report_type, 'unknown' included, it returns 400 with an
\* 'error' field and submits nothing.
C8_HandlerExactlyForGeneratableTypes ==
    /\ (~PostRan) => (handler_calls = <<>> /\ task_calls = <<>>)
    /\ (PostRan /\ report_type \in DOMAIN HandlerOfType) =>
           /\ handler_calls = <<HandlerOfType[report_type]>>
           /\ \A i \in 1..Len(task_calls) :
                  task_calls[i].fn \in SubmitFunctionsOf[HandlerOfType[report_type]]
    /\ (PostRan /\ report_type \notin DOMAIN HandlerOfType) =>
           /\ handler_calls = <<>> /\ task_calls = <<>>
           /\ rp_pc = "posted" /\ response.status = 400
           /\ "error" \in DOMAIN response.data

\* C8 witness: a permitted request for the report type 'unknown' was answered
\* 400 without any handler.
C8_Witness ==
    /\ rp_pc = "posted" /\ report_type = "unknown"
    /\ handler_calls = <<>> /\ task_calls = <<>>
    /\ response = HttpResponse(400, [error |-> "Invalid report type: unknown"])

\* the text is made of whitespace only (the empty text included)
IsBlank(t) == \A i \in 1..Len(t) : t[i] = " "
\* the text is the key k with whitespace around it
IsPadded(t, k) ==
    \E i \in 1..Len(t) :
        /\ i + Len(k) - 1 <= Len(t)
        /\ SubSeq(t, i, i + Len(k) - 1) = k
        /\ \A j \in 1..Len(t) : (j < i \/ j > i + Len(k) - 1) => t[j] = " "
\* the problem_location of the request is a text
HasLocationText ==
    /\ "problem_location" \in DOMAIN request_data
    /\ request_data["problem_location"][1] = "str"
LocationText == request_data["problem_location"][2]

\* the request gives no problem_location, or one that is no text (a JSON null,
\* a number)
NoLocationText == ~HasLocationText

\* C9: for the problem_responses report the task is submitted only after all
\* validations passed: a missing or blank problem_location, one that is not a
\* valid usage key (a null or a number included), and one that does not exist
\* in the modulestore each give a 400 response, and
\* submit_calculate_problem_responses_csv is not called.
C9_ProblemResponsesValidatedFirst ==
    (PostRan /\ report_type = "problem_responses") =>
        /\ ( \/ NoLocationText
             \/ (HasLocationText /\ IsBlank(LocationText))
             \/ (HasLocationText /\ ~\E k \in UsageKeys : IsPadded(LocationText, k))
             \/ (HasLocationText /\ \E k \in UsageKeys :
                                        IsPadded(LocationText, k) /\ k \notin store) )
           => /\ rp_pc = "posted" /\ response.status = 400
              /\ "error" \in DOMAIN response.data
              /\ task_calls = <<>>
        /\ (task_calls # <<>>) =>
              /\ HasLocationText
              /\ Len(task_calls) = 1
              /\ task_calls[1].fn = "submit_calculate_problem_responses_csv"
              /\ task_calls[1].args[2] \in UsageKeys \cap store
              /\ IsPadded(LocationText, task_calls[1].args[2])

\* the same holds of the requests whose problem_location is absent or a text;
\* and whatever the location is, no task is submitted for an invalid one
C9_HoldsForTextLocations ==
    (PostRan /\ report_type = "problem_responses") =>
        /\ ( \/ "problem_location" \notin DOMAIN request_data
             \/ (HasLocationText /\ IsBlank(LocationText))
             \/ (HasLocationText /\ ~\E k \in UsageKeys : IsPadded(LocationText, k))
             \/ (HasLocationText /\ \E k \in UsageKeys :
                                        IsPadded(LocationText, k) /\ k \notin store) )
           => /\ rp_pc = "posted" /\ response.status = 400
              /\ "error" \in DOMAIN response.data
              /\ task_calls = <<>>
        /\ NoLocationText => task_calls = <<>>
        /\ (task_calls # <<>>) =>
              /\ HasLocationText
              /\ Len(task_calls) = 1
              /\ task_calls[1].fn = "submit_calculate_problem_responses_csv"
              /\ task_calls[1].args[2] \in UsageKeys \cap store
              /\ IsPadded(LocationText, task_calls[1].args[2])

\* a request whose problem_location is a JSON null ended in an AttributeError
\* that post does not catch
C9_NullLocationRaises ==
    /\ rp_pc = "raised" /\ report_type = "problem_responses"
    /\ "problem_location" \in DOMAIN request_data
    /\ request_data["problem_location"] = PyNone
    /\ handler_out.raised /\ handler_out.exc.type = "AttributeError"
    /\ task_calls = <<>>

\* the additional_student_profile_attributes setting of the request's site
ConfiguredAttributes == site_config.additional_student_profile_attributes
\* a value is configured: the handler's test 'if additional_attributes:'
AttributesConfigured == ConfiguredAttributes \notin {PyNone, PyStr(""), PyInt(0)}
\* the value is not a list or tuple, or holds a non-string, an empty string or
\* a name outside the available features
AttributesInvalid ==
    \/ ConfiguredAttributes[1] \notin {"list", "tuple"}
    \/ \E i \in 1..Len(ConfiguredAttributes[2]) :
           \E v \in {ConfiguredAttributes[2][i]} :
               \/ v[1] # "str"
               \/ v[1] = "str" /\ (v[2] = "" \/ v[2] \notin AvailableFeatures)
\* the query features before the additional ones: the configured download
\* fields or the defaults
BaseFeatures ==
    IF site_config.student_profile_download_fields = <<>>
    THEN <<"id", "username", "name", "email", "language", "location", "year_of_birth",
           "gender", "level_of_education", "mailing_address", "goals", "enrollment_mode",
           "last_login", "date_joined", "external_user_key", "enrollment_date">>
    ELSE site_config.student_profile_download_fields
\* the features list q is the base features, then the names of the configured
\* value one by one, then the rest
AppendedInOrder(q) ==
    \E n \in {Len(BaseFeatures)}, m \in {Len(ConfiguredAttributes[2])} :
        /\ Len(q) >= n + m
        /\ SubSeq(q, 1, n) = BaseFeatures
        /\ \A i \in 1..m : q[n + i] = ConfiguredAttributes[2][i][2]
        /\ \A i \in (n + m + 1)..Len(q) : q[i] \in {"cohort", "team", "city", "country"}

\* C23: in the enrolled-students report a configured
\* additional_student_profile_attributes value that is not a list or tuple, or
\* contains a non-string, an empty string or a name that is not an available
\* feature, is answered 400 with the ValueError's text and no task is
\* submitted; a valid value is appended to the query features in the given
\* order, duplicates kept, and the task is submitted with them.
C23_AdditionalAttributesValidated ==
    (PostRan /\ report_type = "enrolled_students" /\ AttributesConfigured) =>
        /\ AttributesInvalid =>
              /\ rp_pc = "posted" /\ response.status = 400
              /\ "error" \in DOMAIN response.data
              /\ handler_out.raised /\ handler_out.exc.type = "ValueError"
              /\ task_calls = <<>>
        /\ ~AttributesInvalid =>
              /\ Len(task_calls) = 1
              /\ task_calls[1].fn = "submit_calculate_students_features_csv"
              /\ site_config.PROFILE_INFORMATION_REPORT_PRIVATE_FIELDS = <<>> =>
                     AppendedInOrder(task_calls[1].args[2])
              /\ \E n \in {Len(ConfiguredAttributes[2])},
                    k \in 0..Len(task_calls[1].args[2]) :
                     /\ k + n <= Len(task_calls[1].args[2])
                     /\ \A i \in 1..n :
                            task_calls[1].args[2][k + i] = ConfiguredAttributes[2][i][2]

\* C23 witness: the list ['custom_field', 'custom_field'] was configured and
\* the task was submitted with both entries, in place after the base features.
C23_Witness ==
    /\ rp_pc = "posted" /\ report_type = "enrolled_students"
    /\ ConfiguredAttributes = PyList(<<PyStr("custom_field"), PyStr("custom_field")>>)
    /\ site_config.student_profile_download_fields = <<"id", "year_of_birth">>
    /\ site_config.PROFILE_INFORMATION_REPORT_PRIVATE_FIELDS = <<>>
    /\ response.status = 200
    /\ Len(task_calls) = 1
    /\ task_calls[1].args[2] =
           <<"id", "year_of_birth", "custom_field", "custom_field", "city", "country">>

\* an invalid value was configured and refused: 'bogus' is not an available
\* feature
C23_InvalidRefused ==
    /\ rp_pc = "posted" /\ report_type = "enrolled_students"
    /\ ConfiguredAttributes = PyList(<<PyStr("custom_field"), PyStr("bogus")>>)
    /\ response = HttpResponse(400, [error |-> "Invalid additional student attributes: bogus"])
    /\ task_calls = <<>>

\* the permission the claim names for a report type
RequiredPermission ==
    IF report_type = "issued_certificates" THEN "VIEW_ISSUED_CERTIFICATES" ELSE "CAN_RESEARCH"

\* C10: the view requires VIEW_ISSUED_CERTIFICATES exactly when report_type is
\* 'issued_certificates', and CAN_RESEARCH for every other report_type value,
\* values that are not valid report types included.
C10_PermissionByReportType ==
    /\ (perm_checked # NotChecked) => perm_checked = RequiredPermission
    /\ (rp_pc \in {"post", "posted", "raised"}) =>
           (perm_checked # NotChecked /\ RequiredPermission \in user_perms)
    /\ (rp_pc = "denied" /\ response.status = 403) =>
           (perm_checked # NotChecked /\ RequiredPermission \notin user_perms)

\* C10 witness: a user holding only VIEW_ISSUED_CERTIFICATES asked for a
\* report type that does not exist and was refused for lack of CAN_RESEARCH.
C10_Witness ==
    /\ rp_pc = "denied" /\ report_type = "invalid_type"
    /\ user_perms = {"VIEW_ISSUED_CERTIFICATES"}
    /\ perm_checked = "CAN_RESEARCH"
    /\ response.status = 403

(***************************************************************************)
(* Properties of ReportDownloadsView (checked under SpecDownloads)         *)
(***************************************************************************)
\* get has answered with the list of downloads
Listed == dl_pc = "done" /\ dl_response.status = 200
Downloads == dl_response.data.downloads

\* the words _detect_report_type_from_filename looks for
DetectionKeywords ==
    {"inactive_enrolled", "problem_grade_report", "ora2_submission", "submission_files",
     "ora_submission", "ora2_summary", "ora_summary", "ora2_data", "ora_data",
     "may_enroll", "student_state", "problem_responses", "anonymized_ids", "anon",
     "issued_certificates", "certificate", "grade_report", "enrolled_students", "profile"}

\* the report type of each csv name the claim lists
TypeOfCsvName ==
    [c \in {"grade_report", "enrolled_students", "problem_grade_report", "ora2_summary",
            "ora2_data", "ora2_submission_files", "certificate_report",
            "problem_responses", "may_enroll", "inactive_enrolled", "anon_ids"} |->
        CASE c = "grade_report" -> "grade"
          [] c = "enrolled_students" -> "enrolled_students"
          [] c = "problem_grade_report" -> "problem_grade"
          [] c = "ora2_summary" -> "ora2_summary"
          [] c = "ora2_data" -> "ora2_data"
          [] c = "ora2_submission_files" -> "ora2_submission_files"
          [] c = "certificate_report" -> "issued_certificates"
          [] c = "problem_responses" -> "problem_responses"
          [] c = "may_enroll" -> "pending_enrollments"
          [] c = "inactive_enrolled" -> "pending_activations"
          [] c = "anon_ids" -> "anonymized_student_ids"]

\* the course prefix of the file contains none of the detection keywords
PrefixHasNoKeyword(f) ==
    \E prefix_lower \in {lower(f.course_prefix)} :
        \A k \in DetectionKeywords : ~Contains(prefix_lower, k)

\* no detection keyword begins inside '{course_prefix}_' of the file's name
NoKeywordFromPrefix(f) ==
    \E head \in {lower(f.course_prefix \o "_" \o f.csv_name)} :
    \A k \in DetectionKeywords :
        \A i \in 1..(Len(f.course_prefix) + 1) :
            i + Len(k) - 1 <= Len(head) => SubSeq(head, i, i + Len(k) - 1) # k

\* the detected type of the file is the one the claim gives
DetectedAsClaimed(f, d) ==
    \E csv_lower \in {lower(f.csv_name)}, name_lower \in {lower(d.report_name)} :
        /\ csv_lower \in DOMAIN TypeOfCsvName => d.report_type = TypeOfCsvName[csv_lower]
        /\ Contains(name_lower, "problem_grade_report") => d.report_type # "grade"
        /\ (\A k \in DetectionKeywords : ~Contains(name_lower, k)) =>
               d.report_type = "unknown"

\* C11: for a filename {course_prefix}_{csv_name}_{timestamp} whose course
\* prefix contains none of the detection keywords, the detected type is the one
\* of the csv name (grade_report -> grade, ..., anon_ids ->
\* anonymized_student_ids), whatever the letter case; a name containing
\* 'problem_grade_report' is never grade; a name matching no pattern is 'unknown'.
C11_TypeOfCsvNameDetected ==
    Listed => \A i \in 1..Len(dl_links) :
                  PrefixHasNoKeyword(dl_links[i]) => DetectedAsClaimed(dl_links[i], Downloads[i])

\* the same holds of the files in whose name no detection keyword begins inside
\* '{course_prefix}_'
C11_HoldsAwayFromPrefix ==
    Listed => \A i \in 1..Len(dl_links) :
                  NoKeywordFromPrefix(dl_links[i]) => DetectedAsClaimed(dl_links[i], Downloads[i])

\* C22: for every course prefix, two listed files with the same csv_name are
\* given the same report type: the course prefix never changes the detected
\* type.
C22_PrefixNeverChangesType ==
    Listed => \A i, j \in 1..Len(dl_links) :
                  dl_links[i].csv_name = dl_links[j].csv_name =>
                      Downloads[i].report_type = Downloads[j].report_type

\* the same holds of two files in whose names no detection keyword begins
\* inside '{course_prefix}_'
C22_HoldsAwayFromPrefix ==
    Listed => \A i, j \in 1..Len(dl_links) :
                  /\ NoKeywordFromPrefix(dl_links[i]) /\ NoKeywordFromPrefix(dl_links[j])
                  /\ dl_links[i].csv_name = dl_links[j].csv_name
                  => Downloads[i].report_type = Downloads[j].report_type

\* the text has the form YYYY-MM-DD-HHMM
IsTimestampText(t) ==
    /\ Len(t) = 15
    /\ \A i \in {1, 2, 3, 4, 6, 7, 9, 10, 12, 13, 14, 15} :
           \E d \in 1..10 : SubSeq(t, i, i) = SubSeq("0123456789", d, d)
    /\ \A i \in {5, 8, 11} : SubSeq(t, i, i) = "-"

\* the first substring '_YYYY-MM-DD-HHMM' of the name begins at position i
FirstTimestampAt(name, i) ==
    /\ i + 15 <= Len(name)
    /\ SubSeq(name, i, i) = "_" /\ IsTimestampText(SubSeq(name, i + 1, i + 15))
    /\ \A j \in 1..(i - 1) :
           ~(/\ j + 15 <= Len(name)
             /\ SubSeq(name, j, j) = "_" /\ IsTimestampText(SubSeq(name, j + 1, j + 15)))

\* the days of the twelve months of a common year
MonthLengths == <<31, 28, 31, 30, 31, 30, 31, 31, 30, 31, 30, 31>>

\* YYYY-MM-DD-HHMM names a day of the calendar and a time of that day
IsCalendarDateAndTime(t) ==
    LET y == ParseInt(SubSeq(t, 1, 4))
        mo == ParseInt(SubSeq(t, 6, 7))
        d == ParseInt(SubSeq(t, 9, 10))
        h == ParseInt(SubSeq(t, 12, 13))
        mi == ParseInt(SubSeq(t, 14, 15))
        leap_day == IF mo = 2 /\ ((y % 4 = 0 /\ y % 100 # 0) \/ y % 400 = 0) THEN 1 ELSE 0
    IN /\ y >= 1 /\ mo >= 1 /\ mo <= 12
       /\ d >= 1 /\ d <= MonthLengths[mo] + leap_day
       /\ h <= 23 /\ mi <= 59

\* 'YYYY-MM-DDTHH:MM:00Z' of YYYY-MM-DD-HHMM
IsoOfTimestamp(t) ==
    SubSeq(t, 1, 10) \o "T" \o SubSeq(t, 12, 13) \o ":" \o SubSeq(t, 14, 15) \o ":00Z"

\* C12: _extract_date_from_filename returns 'YYYY-MM-DDTHH:MM:00Z' for the
\* first substring '_YYYY-MM-DD-HHMM' of the filename when that substring is
\* a valid calendar date and time of day, and None when the filename has no
\* such substring or it is not a valid date or time; it never raises.
C12_IsoDateOrNone ==
    /\ (dl_pc = "raised") => dl_response.exception.type = "Http404"
    /\ Listed => \A n \in 1..Len(dl_links) :
           \E name \in {Downloads[n].report_name} :
               /\ (~\E i \in 1..Len(name) : FirstTimestampAt(name, i)) =>
                      Downloads[n].date_generated = PyNone
               /\ \A i \in 1..Len(name) : FirstTimestampAt(name, i) =>
                      \E t \in {SubSeq(name, i + 1, i + 15)} :
                          Downloads[n].date_generated =
                              IF IsCalendarDateAndTime(t) THEN PyStr(IsoOfTimestamp(t))
                              ELSE PyNone

\* the same on a platform whose strftime pads the year to four digits
C12_HoldsWhereYearIsPadded == strftime_pads_year => C12_IsoDateOrNone

(***************************************************************************)
(* Properties of the group configuration views (checked under SpecGroups)  *)
(***************************************************************************)
\* the list view has answered a request with 200
ListAnswered == gc_pc = "done" /\ gc_view = <<"list">> /\ gc_response.status = 200
\* the detail view has run for a request: it returned a response, or raised
DetailAnswered == gc_pc \in {"done", "raised"} /\ gc_view = <<"detail">>
\* the view raised Http404, which the framework answers with status 404
AnsweredNotFoundByFramework == gc_pc = "raised" /\ gc_response.exception.type = "Http404"

\* positions of the cohort-scheme partitions in course.user_partitions
CohortPositions == {i \in 1..Len(gc_user_partitions) : gc_user_partitions[i].scheme = "cohort"}
\* the least of a non-empty set of positions
First(positions) == CHOOSE i \in positions : \A j \in positions : i <= j

\* the rendered groups are the given groups, in their order
SameGroups(rendered, groups) ==
    /\ Len(rendered) = Len(groups)
    /\ \A k \in 1..Len(groups) :
           /\ rendered[k].id = groups[k].id
           /\ rendered[k].name = groups[k].name

\* C13: GroupConfigurationsListView.get returns id = null and groups = [] when
\* the course has no cohort-scheme partition; otherwise id is that partition's
\* id and groups are exactly its groups in their order, so that groups of
\* partitions with another scheme never appear; studio_content_groups_link is
\* always '<STUDIO_BASE_URL>/course/<course_id>/group_configurations'.
C13_ContentGroupsOfCohortPartition ==
    ListAnswered =>
        /\ gc_response.data.studio_content_groups_link =
               (IF "STUDIO_BASE_URL" \in DOMAIN gc_mfe_config
                THEN gc_mfe_config["STUDIO_BASE_URL"] ELSE "")
               \o "/course/" \o gc_course_id \o "/group_configurations"
        /\ (CohortPositions = {}) =>
               (gc_response.data.id = <<"None">> /\ gc_response.data.groups = <<>>)
        /\ (CohortPositions # {}) =>
               /\ gc_response.data.id = <<"int", gc_user_partitions[First(CohortPositions)].id>>
               /\ SameGroups(gc_response.data.groups,
                             gc_user_partitions[First(CohortPositions)].groups)

\* C13 witness: a course with a random-scheme partition before its cohort-scheme
\* partition was listed with the id and the two groups of the cohort partition.
C13_Witness ==
    /\ ListAnswered
    /\ Len(gc_user_partitions) = 2
    /\ gc_user_partitions[1].scheme = "random" /\ gc_user_partitions[1].id = 51
    /\ Len(gc_user_partitions[1].groups) = 2
    /\ gc_user_partitions[2].scheme = "cohort" /\ gc_user_partitions[2].id = 50
    /\ gc_response.data.id = <<"int", 50>>
    /\ Len(gc_response.data.groups) = 2
    /\ gc_response.data.groups[1].name = "Group B"
    /\ gc_response.data.groups[2].name = "Group A"
    /\ gc_response.data.studio_content_groups_link =
           "https://studio.example.com/course/course-v1:org+course+run/group_configurations"

\* the number a configuration_id of the URL stands for
NumberOfConfigurationId ==
    [c \in {"50", "51", "52", "050"} |->
        CASE c = "50" -> 50 [] c = "51" -> 51 [] c = "52" -> 52 [] c = "050" -> 50]

\* positions of the cohort-scheme partitions with the id of the request
MatchingPositions ==
    {i \in 1..Len(gc_user_partitions) :
        /\ gc_user_partitions[i].id = NumberOfConfigurationId[gc_configuration_id]
        /\ gc_user_partitions[i].scheme = "cohort"}

\* the course key of the request cannot be parsed
UnparsableCourseKey == gc_course_id \in {"not-a-course-key", "course-v1:org+course"}

\* C14: GroupConfigurationDetailView.get returns 200 with a partition's data
\* only when the course has a user partition whose id equals configuration_id
\* and whose scheme is the cohort scheme (the first such partition of
\* course.user_partitions); in every other case, a partition with that id under
\* another scheme included, it returns 404; an unparsable course key gives 400.
\* For a course that does not exist the 404 is the framework's answer to the
\* Http404 that get_course_by_id raises.
C14_DetailOfCohortPartitionOnly ==
    DetailAnswered =>
        /\ UnparsableCourseKey => (gc_pc = "done" /\ gc_response.status = 400)
        /\ (~UnparsableCourseKey /\ gc_course_id = "course-v1:org+course+run"
                /\ MatchingPositions # {}) =>
               /\ gc_pc = "done"
               /\ gc_response.status = 200
               /\ gc_response.data.id = <<"int", NumberOfConfigurationId[gc_configuration_id]>>
               /\ gc_response.data.scheme = "cohort"
               /\ gc_response.data.name = gc_user_partitions[First(MatchingPositions)].name
               /\ SameGroups(gc_response.data.groups,
                             gc_user_partitions[First(MatchingPositions)].groups)
        /\ (~UnparsableCourseKey /\ ~(gc_course_id = "course-v1:org+course+run"
                                        /\ MatchingPositions # {})) =>
               \/ gc_pc = "done" /\ gc_response.status = 404
               \/ AnsweredNotFoundByFramework
        /\ AnsweredNotFoundByFramework => gc_course_id = "course-v1:invalid+course+key"

\* C14 witness: the course has a partition with the requested id under the
\* random scheme only, and the answer is 404.
C14_Witness ==
    /\ DetailAnswered
    /\ gc_course_id = "course-v1:org+course+run" /\ gc_configuration_id = "51"
    /\ \E i \in 1..Len(gc_user_partitions) :
           gc_user_partitions[i].id = 51 /\ gc_user_partitions[i].scheme = "random"
    /\ MatchingPositions = {}
    /\ gc_pc = "done" /\ gc_response.status = 404

(***************************************************************************)
(* Properties of the search documents (checked under SpecSearchDocs)       *)
(***************************************************************************)
ContainerDocReturned ==
    sd_pc = "done" /\ sd_function = "searchable_doc_for_container" /\ ~sd_result.raised

ContainerFound ==
    sd_db_container # NoContainer /\ sd_db_container.container_key = str_key(sd_key)

\* C15: when no container is found for the container key, the document
\* searchable_doc_for_container returns holds only what the key gives and has
\* no Fields.type entry.
C15_NotFoundDocHasNoType ==
    (ContainerDocReturned /\ ~ContainerFound) =>
        /\ "type" \notin DOMAIN sd_result.ret
        /\ sd_result.ret.id = meili_id_from_opaque_key(sd_key)
        /\ sd_result.ret.usage_key = str_key(sd_key)

\* What the code does for a container that is not found: the document is the
\* one built from the key, Fields.type included, and nothing of a container.
C15_NotFoundDocIsBaseDoc ==
    (ContainerDocReturned /\ ~ContainerFound) =>
        /\ DOMAIN sd_result.ret = {"id", "context_key", "org", "type", "block_type",
                                   "usage_key", "block_id", "access_id", "publish_status",
                                   "last_published"}
        /\ sd_result.ret.type = "library_container"
        /\ sd_result.ret.id = meili_id_from_opaque_key(sd_key)
        /\ sd_result.ret.publish_status = "never"

CollectionCallDone == sd_pc = "done" /\ sd_function = "searchable_doc_for_collection"

CollectionInLibrary ==
    sd_db_collection # NoCollection /\ sd_db_collection.key = sd_key.id

\* a collection was passed in or found for the key
CollectionAtHand == sd_collection_arg # NoCollection \/ CollectionInLibrary

TheCollection == IF sd_collection_arg # NoCollection THEN sd_collection_arg ELSE sd_db_collection

CollectionFieldNames ==
    {"context_key", "org", "usage_key", "block_id", "type", "display_name", "description",
     "created", "modified", "num_children", "published", "access_id", "breadcrumbs"}

\* C16: the document searchable_doc_for_collection returns has Fields.type and
\* the other collection fields exactly when a collection was passed in or found
\* for the key, is the id alone when there is none, and has '_disabled', with
\* value True, exactly when there is a collection and it is not enabled.  The
\* call returns unless the collection passed in has another key than the
\* locator (the assert of the function).
C16_CollectionDocFields ==
    CollectionCallDone =>
        IF sd_result.raised
        THEN sd_collection_arg # NoCollection /\ sd_collection_arg.key # sd_key.id
        ELSE /\ sd_result.ret.id = meili_id_from_opaque_key(sd_key)
             /\ "type" \in DOMAIN sd_result.ret <=> CollectionAtHand
             /\ CollectionAtHand =>
                    /\ CollectionFieldNames \subseteq DOMAIN sd_result.ret
                    /\ sd_result.ret.type = "collection"
                    /\ sd_result.ret.block_id = TheCollection.key
                    /\ sd_result.ret.display_name = TheCollection.title
                    /\ sd_result.ret.num_children = TheCollection.draft_entities
                    /\ sd_result.ret.published.num_children = TheCollection.published_entities
                    /\ sd_result.ret.usage_key = str_key(sd_key)
             /\ ~CollectionAtHand => DOMAIN sd_result.ret = {"id"}
             /\ "_disabled" \in DOMAIN sd_result.ret <=>
                    (CollectionAtHand /\ ~TheCollection.enabled)
             /\ "_disabled" \in DOMAIN sd_result.ret => sd_result.ret["_disabled"] = TRUE

\* C16 witness: no collection was passed in, the library holds a collection
\* for the key that is not enabled, and the document has the type and the mark.
C16_Witness ==
    /\ CollectionCallDone /\ ~sd_result.raised
    /\ sd_collection_arg = NoCollection /\ CollectionInLibrary
    /\ ~sd_db_collection.enabled
    /\ "type" \in DOMAIN sd_result.ret /\ "_disabled" \in DOMAIN sd_result.ret

TagsFunctions ==
    {"_tags_for_content_object", "searchable_doc_tags", "searchable_doc_tags_for_collection"}

TagsReturned == sd_pc = "done" /\ sd_function \in TagsFunctions /\ ~sd_result.raised

\* C17: for an object without any tag the three tag functions return the tags
\* field, and its value is the empty dict.
C17_UntaggedGivesEmptyTags ==
    (TagsReturned /\ sd_object_tags = <<>>) =>
        /\ "tags" \in DOMAIN sd_result.ret
        /\ DOMAIN sd_result.ret.tags = {}
        /\ sd_function # "_tags_for_content_object" =>
               /\ DOMAIN sd_result.ret = {"id", "tags"}
               /\ sd_result.ret.id = meili_id_from_opaque_key(sd_key)

\* C17 witness: searchable_doc_tags_for_collection returned for a collection
\* without tags, with an empty tags dict next to the id.
C17_Witness ==
    /\ TagsReturned /\ sd_function = "searchable_doc_tags_for_collection"
    /\ sd_object_tags = <<>>
    /\ DOMAIN sd_result.ret = {"id", "tags"} /\ DOMAIN sd_result.ret.tags = {}

LevelKey(k) == "level" \o ToString(k)
TagKeys == {"taxonomy"} \cup {LevelKey(k) : k \in 0..3}

\* the name with every occurrence of ' > ' turned into ' _ ': the '>' between
\* two spaces becomes '_'
RECURSIVE EscapedFrom(_, _)
EscapedFrom(name, i) ==
    IF i > Len(name) THEN ""
    ELSE (IF 1 < i /\ i < Len(name) /\ SubSeq(name, i - 1, i + 1) = " > "
          THEN "_" ELSE SubSeq(name, i, i)) \o EscapedFrom(name, i + 1)
Escaped(name) == EscapedFrom(name, 1)

\* 'T > t1 > ... > t(k+1)' of a tag
LevelString(tag, k) ==
    str_join(" > ", [n \in 1..(k + 2) |-> Escaped((<<tag.taxonomy_name>> \o tag.lineage)[n])])

TagsOfObject == {sd_object_tags[i] : i \in 1..Len(sd_object_tags)}

LevelsAsClaimed(tags) ==
    /\ DOMAIN tags \subseteq TagKeys
    /\ "taxonomy" \in DOMAIN tags
    /\ \A t \in TagsOfObject :
           /\ InList(t.taxonomy_name, tags["taxonomy"])
           /\ \A k \in 0..3 :
                  k < Len(t.lineage) =>
                      /\ LevelKey(k) \in DOMAIN tags
                      /\ InList(LevelString(t, k), tags[LevelKey(k)])
    /\ \A j \in 1..Len(tags["taxonomy"]) :
           \E t \in TagsOfObject : tags["taxonomy"][j] = t.taxonomy_name
    /\ \A k \in 0..3 :
           LevelKey(k) \in DOMAIN tags =>
               \A j \in 1..Len(tags[LevelKey(k)]) :
                   \E t \in TagsOfObject :
                       /\ k < Len(t.lineage)
                       /\ tags[LevelKey(k)][j] = LevelString(t, k)
    /\ \A key \in DOMAIN tags : NoRepeats(tags[key])

\* C18: for every tag with taxonomy name T and lineage [t1, ..., td] the
\* string 'T > t1 > ... > t(k+1)' is in tags.level{k} for each k below
\* min(d, 4) and the tag adds nothing to a level k >= d; T is in tags.taxonomy;
\* no list has a duplicate; every ' > ' inside a name has become ' _ '; the
\* only keys are taxonomy and level0 to level3.
C18_TagLevels ==
    (TagsReturned /\ sd_object_tags # <<>>) => LevelsAsClaimed(sd_result.ret.tags)

\* two occurrences of ' > ' in the name share a space
HasOverlappingSeparators(name) ==
    \E i \in 1..Len(name) : i + 4 <= Len(name) /\ SubSeq(name, i, i + 4) = " > > "

\* C18 where it holds: the levels are as stated for every object none of whose
\* names has two occurrences of ' > ' sharing a space.
C18_HoldsWithoutOverlap ==
    (/\ TagsReturned /\ sd_object_tags # <<>>
     /\ \A t \in TagsOfObject :
            /\ ~HasOverlappingSeparators(t.taxonomy_name)
            /\ \A n \in 1..Len(t.lineage) : ~HasOverlappingSeparators(t.lineage[n]))
    => LevelsAsClaimed(sd_result.ret.tags)

(***************************************************************************)
(* Properties of json_safe (checked under SpecJsonSafe)                    *)
(***************************************************************************)
JsonSafeDone == js_pc = "done"

\* the key or value comes through UTF-8 decoding and a JSON encode and decode
Survives(x) ==
    /\ ~decode_object(x).raised
    /\ ~json_loads_dumps(decode_object(x).ret).raised

\* what it is afterwards
ThroughJson(x) == json_loads_dumps(decode_object(x).ret).ret

\* the positions of the entries of d that the claim keeps
KeptEntries ==
    {i \in 1..Len(js_d[2]) :
        /\ TypeOf(js_d[2][i][2]) \in ok_types
        /\ js_d[2][i][1] # PyStr("__builtins__")
        /\ Survives(js_d[2][i][1])
        /\ Survives(js_d[2][i][2])}

\* the key under which a kept entry stands in the result, a JSON object
ResultKey(k) ==
    IF json_key(ThroughJson(k)).raised THEN ThroughJson(k) ELSE json_key(ThroughJson(k)).ret

ResultEntry(i) == <<ResultKey(js_d[2][i][1]), ThroughJson(js_d[2][i][2])>>

ReturnsKeptEntries ==
    /\ ~js_result.raised
    /\ \A i \in KeptEntries :
           \E j \in 1..Len(js_result.ret[2]) : js_result.ret[2][j] = ResultEntry(i)
    /\ \A j \in 1..Len(js_result.ret[2]) :
           \E i \in KeptEntries : js_result.ret[2][j] = ResultEntry(i)

\* C19: json_safe(d) raises nothing and returns exactly the entries of d whose
\* value has an allowed type, whose key is not '__builtins__' and whose key and
\* value survive UTF-8 decoding and a JSON encode and decode; every other
\* entry is dropped and changes no kept entry.
C19_JsonSafePart == JsonSafeDone => ReturnsKeptEntries

\* C19 where it holds: the same for every d in which no entry to keep has a
\* tuple as its key and no two entries to keep come to the same JSON key.
C19_HoldsForSeparateJsonKeys ==
    (/\ JsonSafeDone
     /\ \A i \in KeptEntries : TypeOf(js_d[2][i][1]) # "tuple"
     /\ \A i, j \in KeptEntries :
            i # j => ResultKey(js_d[2][i][1]) # ResultKey(js_d[2][j][1]))
    => ReturnsKeptEntries

====
